---- MODULE Spec2Model ----
(***************************************************************************)
(* Litedown: block tokenizer (core/tokenizer.ts), token renderer           *)
(* (core/renderer.ts), inline parser, sanitizer and the checkpoint-based   *)
(* streaming session StreamdownRenderer (streamdown.ts).                   *)
(*                                                                         *)
(* JavaScript strings are TLA+ strings; TLC evaluates Len, \o, SubSeq,     *)
(* Head and Tail on them, so every string function below works character   *)
(* by character as the source does.  Line indices are 0-based as in the    *)
(* source; Line(lines, i) reads lines[i].                                  *)
(***************************************************************************)
EXTENDS Integers, Sequences, FiniteSets, TLC

VARIABLES
    options,          \* Required<StreamdownOptions> of the run / the session
    markdown,         \* tokenize: the argument
    lines,            \* tokenize: markdown.split('\n')
    i,                \* tokenize: scan position (0-based line index)
    tokens,           \* tokenize: tokens pushed so far
    starts,           \* history: scan position at which each token was produced
    pc,               \* tokenize: "scan", "returned", "thrown" ("idle": no call)
    buffer,           \* StreamdownRenderer.buffer
    completedTokens,  \* StreamdownRenderer.completedTokens
    completedHtml,    \* StreamdownRenderer.completedHtml
    allTokens,        \* renderIncremental: allTokens of the last call that returned
    result,           \* the value the last call returned (Undefined: none)
    status,           \* how the last call ended: "ok", "thrown", "hung"
    notified,         \* the string last delivered to options.onUpdate
    calls,            \* history: the calls made on the session, with their ends
    renderLog,        \* history: token renderer invocations of the last call
    commitLog,        \* history: per token index, the token first committed there
    listeners,        \* StreamdownRenderer.listeners
    handles,          \* the listeners for which onUpdate has returned an unsubscribe function
    cancelled,        \* history: listeners unsubscribed and not subscribed again since
    everCancelled,    \* history: listeners whose unsubscribe function has been called
    delivered,        \* history: the notifications of the last call, in order
    leftOut           \* history: the value of cancelled when the last call was made

tokVars == <<markdown, lines, i, tokens, starts, pc>>

sessionVars ==
    <<buffer, completedTokens, completedHtml, allTokens, result, status, notified,
      calls, renderLog, commitLog, listeners, handles, cancelled, everCancelled,
      delivered, leftOut>>

listenerVars == <<listeners, handles, cancelled, everCancelled>>

(***************************************************************************)
(* Bounds of the model                                                     *)
(***************************************************************************)
MaxLines == 3

\* calls made on one session
MaxCalls == 3

\* registrations held by one session
MaxListeners == 2

\* pieces of an HTML string given to the sanitizer
MaxPieces == 3

(***************************************************************************)
(* String primitives (ECMAScript String.prototype)                         *)
(***************************************************************************)
\* s[k-1] for 1 <= k <= s.length, and "" (undefined) outside
At(s, k) == IF k >= 1 /\ k <= Len(s) THEN SubSeq(s, k, k) ELSE ""

\* WhiteSpace and LineTerminator code points that \s, trim and trimEnd remove
WhiteSpaceChars == {" ", "\t", "\n", "\r", "\f"}

\* LineTerminator code points, which the regex atom . does not match
LineTerminators == {"\n", "\r"}

IsSpace(c) == c \in WhiteSpaceChars

\* the character U+0060 (a string literal cannot hold it unpaired) and the fence
BackTick == SubSeq("`'", 1, 1)
Fence == BackTick \o BackTick \o BackTick

IsDigit(c) == c \in {"0", "1", "2", "3", "4", "5", "6", "7", "8", "9"}

StartsWith(s, p) == Len(s) >= Len(p) /\ SubSeq(s, 1, Len(p)) = p

EndsWith(s, p) == Len(s) >= Len(p) /\ SubSeq(s, Len(s) - Len(p) + 1, Len(s)) = p

Includes(s, c) == \E k \in 1..Len(s) : At(s, k) = c

\* s.slice(n)
SliceFrom(s, n) == IF n >= Len(s) THEN "" ELSE SubSeq(s, n + 1, Len(s))

\* s.slice(a, -b)
SliceMid(s, a, b) == IF Len(s) - b <= a THEN "" ELSE SubSeq(s, a + 1, Len(s) - b)

\* number of leading white-space characters
LeadWs(s) ==
    CHOOSE k \in 0..Len(s) :
        /\ \A j \in 1..k : IsSpace(At(s, j))
        /\ (k = Len(s) \/ ~IsSpace(At(s, k + 1)))

\* length of s without its trailing white space
TrimEndLen(s) ==
    CHOOSE k \in 0..Len(s) :
        /\ \A j \in (k + 1)..Len(s) : IsSpace(At(s, j))
        /\ (k = 0 \/ ~IsSpace(At(s, k)))

TrimEnd(s) == IF TrimEndLen(s) = 0 THEN "" ELSE SubSeq(s, 1, TrimEndLen(s))

TrimStart(s) == SliceFrom(s, LeadWs(s))

Trim(s) == TrimStart(TrimEnd(s))

\* the regex atom-run .* / .+ can cover s
NoLineTerm(s) == \A k \in 1..Len(s) : At(s, k) \notin LineTerminators

\* index of the first occurrence of character c in s, 0 when absent
IndexOf(s, c) ==
    IF Includes(s, c)
    THEN CHOOSE k \in 1..Len(s) : At(s, k) = c /\ \A j \in 1..(k - 1) : At(s, j) /= c
    ELSE 0

\* s.split(c): a sequence of strings
RECURSIVE Split(_, _)
SplitAt(s, c, k) ==
    IF k = 0 THEN <<s>>
    ELSE <<(IF k = 1 THEN "" ELSE SubSeq(s, 1, k - 1))>> \o Split(SliceFrom(s, k), c)

Split(s, c) == SplitAt(s, c, IndexOf(s, c))

\* parts.join(sep)
RECURSIVE Join(_, _)
Join(parts, sep) ==
    IF Len(parts) = 0 THEN ""
    ELSE IF Len(parts) = 1 THEN parts[1]
    ELSE parts[1] \o sep \o Join(Tail(parts), sep)

\* arr.slice(n) on a sequence of strings
SeqFrom(parts, n) == IF n >= Len(parts) THEN <<>> ELSE SubSeq(parts, n + 1, Len(parts))

UpperLetters == "ABCDEFGHIJKLMNOPQRSTUVWXYZ"
LowerLetters == "abcdefghijklmnopqrstuvwxyz"

LowerChar(c) ==
    IF Includes(UpperLetters, c) THEN At(LowerLetters, IndexOf(UpperLetters, c)) ELSE c

\* the characters lo..hi of s in lower case (the range is halved so that
\* the evaluation stays shallow on long strings)
RECURSIVE LowerRange(_, _, _)
LowerRange(s, lo, hi) ==
    IF lo > hi THEN ""
    ELSE IF lo = hi THEN LowerChar(At(s, lo))
    ELSE LowerRange(s, lo, (lo + hi) \div 2) \o LowerRange(s, (lo + hi) \div 2 + 1, hi)

ToLowerCase(s) == LowerRange(s, 1, Len(s))

Line(ls, k) == ls[k + 1]

(***************************************************************************)
(* Block tokens (types.ts BlockToken).  An optional field that the source  *)
(* leaves undefined holds the value the renderer's (|| default) reads for   *)
(* it; ListItemToken.checked keeps its three values.                       *)
(***************************************************************************)
Undefined == "undefined"

BlockToken(type, raw, isComplete, endOffset) ==
    [type |-> type, raw |-> raw, text |-> "", depth |-> 0, lang |-> "",
     items |-> <<>>, ordered |-> FALSE, rows |-> <<>>, header |-> <<>>,
     align |-> <<>>, isComplete |-> isComplete, endOffset |-> endOffset,
     calloutType |-> "", calloutTitle |-> "", body |-> ""]

ListItemToken(indent, content, checked) ==
    [indent |-> indent, content |-> content, checked |-> checked]

\* one iteration of the scan loop: the token pushed, the new value of i, and
\* whether the iteration threw
Step(tok, next) == [tok |-> tok, next |-> next, threw |-> FALSE]

\* lines[a], ..., lines[b-1]
LinesBetween(ls, a, b) == IF a >= b THEN <<>> ELSE SubSeq(ls, a + 1, b)

TrimEndAll(ls) == [k \in 1..Len(ls) |-> TrimEnd(ls[k])]

(***************************************************************************)
(* tokenizer.ts: the start conditions and the regular expressions          *)
(***************************************************************************)
IsBlank(trimmed) == trimmed = ""

IsMathStart(trimmed, o) == o.math /\ StartsWith(trimmed, "$$")

IsSingleLineMath(trimmed) ==
    Len(trimmed) > 2 /\ EndsWith(trimmed, "$$") /\ trimmed /= "$$"

NotMathClose(l) == ~StartsWith(TrimEnd(l), "$$")

IsFenceStart(trimmed) == StartsWith(trimmed, Fence)

NotFenceClose(l) == ~StartsWith(TrimEnd(l), Fence)

\* number of leading # characters
HashRun(s) ==
    CHOOSE k \in 0..Len(s) :
        /\ \A j \in 1..k : At(s, j) = "#"
        /\ At(s, k + 1) /= "#"

\* /^(#{1,6})\s+(.+)$/ : group 1 is the run of '#', group 2 what follows the
\* white space after it, which . must cover up to the end of the string
HeadingDepth(trimmed) == HashRun(trimmed)

HeadingText(trimmed) ==
    LET rest == SliceFrom(trimmed, HashRun(trimmed)) IN SliceFrom(rest, LeadWs(rest))

HeadingMatch(trimmed) ==
    /\ HashRun(trimmed) >= 1
    /\ HashRun(trimmed) <= 6
    /\ LeadWs(SliceFrom(trimmed, HashRun(trimmed))) >= 1
    /\ Len(HeadingText(trimmed)) >= 1
    /\ NoLineTerm(HeadingText(trimmed))

\* /^(-{3,}|\*{3,}|_{3,})$/
IsHr(trimmed) ==
    /\ Len(trimmed) >= 3
    /\ At(trimmed, 1) \in {"-", "*", "_"}
    /\ \A k \in 1..Len(trimmed) : At(trimmed, k) = At(trimmed, 1)

IsQuoteLine(l) == StartsWith(TrimEnd(l), ">")

\* ql.replace(/^>\s?/, '')
StripQuote(ql) == IF IsSpace(At(ql, 2)) THEN SliceFrom(ql, 2) ELSE SliceFrom(ql, 1)

CalloutKeywords == {"note", "tip", "warning", "caution", "important"}

\* /^\[!(NOTE|TIP|WARNING|CAUTION|IMPORTANT)\]\s*(.*)$/i
CalloutKeywordOf(q) ==
    {kw \in CalloutKeywords :
        /\ StartsWith(q, "[!")
        /\ ToLowerCase(SubSeq(q, 3, IF Len(q) < 2 + Len(kw) THEN Len(q) ELSE 2 + Len(kw))) = kw
        /\ At(q, 3 + Len(kw)) = "]"}

CalloutRest(q, kw) ==
    LET rest == SliceFrom(q, 3 + Len(kw)) IN SliceFrom(rest, LeadWs(rest))

CalloutMatch(q) ==
    \E kw \in CalloutKeywordOf(q) : NoLineTerm(CalloutRest(q, kw))

\* /^\|?\s*:?-+:?\s*(\|\s*:?-+:?\s*)*\|?\s*$/
SkipWs(s, p) == p + LeadWs(SliceFrom(s, p - 1))

DashRunEnd(s, p) ==
    CHOOSE q \in p..(Len(s) + 1) :
        /\ \A j \in p..(q - 1) : At(s, j) = "-"
        /\ At(s, q) /= "-"

\* position after a cell :?-+:? that starts at p, 0 when none starts there
CellEnd(s, p) ==
    LET p1 == IF At(s, p) = ":" THEN p + 1 ELSE p
        p2 == DashRunEnd(s, p1)
    IN  IF p2 = p1 THEN 0
        ELSE IF At(s, p2) = ":" THEN p2 + 1 ELSE p2

\* (\|\s*:?-+:?\s*)*\|?\s*$ from position p; q is the position after the
\* pipe and its white space, e the end of the cell that starts there
RECURSIVE AlignTail(_, _)
AlignTailAt(s, q, e) == IF e /= 0 THEN AlignTail(s, SkipWs(s, e)) ELSE q > Len(s)

AlignTail(s, p) ==
    IF p > Len(s) THEN TRUE
    ELSE IF At(s, p) /= "|" THEN FALSE
    ELSE AlignTailAt(s, SkipWs(s, p + 1), CellEnd(s, SkipWs(s, p + 1)))

AlignRowTest(s) ==
    LET q == SkipWs(s, IF At(s, 1) = "|" THEN 2 ELSE 1)
        e == CellEnd(s, q)
    IN  e /= 0 /\ AlignTail(s, SkipWs(s, e))

HasPipe(l) == Includes(TrimEnd(l), "|")

IsTableStart(ls, i0, o) ==
    /\ o.tables
    /\ Includes(TrimEnd(Line(ls, i0)), "|")
    /\ i0 + 1 < Len(ls)
    /\ AlignRowTest(TrimEnd(Line(ls, i0 + 1)))

\* line.replace(/^\|/, '').replace(/\|$/, '').split('|').map(c => c.trim())
ParseRow(l) ==
    LET a == IF StartsWith(l, "|") THEN SliceFrom(l, 1) ELSE l
        b == IF EndsWith(a, "|") THEN SubSeq(a, 1, Len(a) - 1) ELSE a
        cells == Split(b, "|")
    IN  [k \in 1..Len(cells) |-> Trim(cells[k])]

AlignOf(cell) ==
    IF StartsWith(cell, ":") /\ EndsWith(cell, ":") THEN "center"
    ELSE IF EndsWith(cell, ":") THEN "right"
    ELSE "left"

\* /^(\s*)([-*+])\s/ on the untrimmed line
UListStart(l) ==
    /\ At(l, LeadWs(l) + 1) \in {"-", "*", "+"}
    /\ IsSpace(At(l, LeadWs(l) + 2))

\* /^(\s*)([-*+])\s(.*)$/ : group 3 must reach the end of the string
UListContent(l) == SliceFrom(l, LeadWs(l) + 2)

UListMatch(l) == UListStart(l) /\ NoLineTerm(UListContent(l))

\* /^\[([ xX])\]\s(.*)/
TaskMatch(content) ==
    /\ At(content, 1) = "["
    /\ At(content, 2) \in {" ", "x", "X"}
    /\ At(content, 3) = "]"
    /\ IsSpace(At(content, 4))

\* the longest prefix of s that . covers
DotStar(s) ==
    LET k == CHOOSE k \in 0..Len(s) :
                 /\ \A j \in 1..k : At(s, j) \notin LineTerminators
                 /\ (k = Len(s) \/ At(s, k + 1) \in LineTerminators)
    IN  IF k = 0 THEN "" ELSE SubSeq(s, 1, k)

UListItem(l, o) ==
    LET content == UListContent(l) IN
    IF o.gfm /\ TaskMatch(content)
    THEN ListItemToken(LeadWs(l), DotStar(SliceFrom(content, 4)),
                       IF At(content, 2) /= " " THEN "true" ELSE "false")
    ELSE ListItemToken(LeadWs(l), content, Undefined)

\* end of the run of digits that starts at p
DigitRunEnd(s, p) ==
    CHOOSE q \in p..(Len(s) + 1) :
        /\ \A j \in p..(q - 1) : IsDigit(At(s, j))
        /\ ~IsDigit(At(s, q))

\* /^(\s*)\d+\.\s/ on the untrimmed line
OListStart(l) ==
    LET d == DigitRunEnd(l, LeadWs(l) + 1) IN
    /\ d > LeadWs(l) + 1
    /\ At(l, d) = "."
    /\ IsSpace(At(l, d + 1))

\* /^(\s*)\d+\.\s(.*)$/
OListContent(l) == SliceFrom(l, DigitRunEnd(l, LeadWs(l) + 1) + 1)

OListMatch(l) == OListStart(l) /\ NoLineTerm(OListContent(l))

OListItem(l) == ListItemToken(LeadWs(l), OListContent(l), Undefined)

\* the condition of the paragraph's inner while loop on lines[i]
ParaContinues(l) ==
    /\ Trim(l) /= ""
    /\ ~StartsWith(TrimEnd(l), "#")
    /\ ~StartsWith(TrimEnd(l), Fence)
    /\ ~StartsWith(TrimEnd(l), "$$")
    /\ ~StartsWith(TrimEnd(l), ">")
    /\ ~IsHr(TrimEnd(l))
    /\ ~UListStart(l)
    /\ ~OListStart(l)

\* the condition P of the inner loops, by the construct that runs the loop
LoopTest(construct, l) ==
    CASE construct = "math" -> NotMathClose(l)
      [] construct = "fence" -> NotFenceClose(l)
      [] construct = "quote" -> IsQuoteLine(l)
      [] construct = "table" -> HasPipe(l)
      [] construct = "ulist" -> UListMatch(l)
      [] construct = "olist" -> OListMatch(l)
      [] construct = "paragraph" -> ParaContinues(l)

\* an inner loop  while (i < lines.length && P(lines[i])) i++  started at from:
\* the value of i when it ends
ScanWhile(ls, from, construct) ==
    CHOOSE j \in from..Len(ls) :
        /\ \A k \in from..(j - 1) : LoopTest(construct, Line(ls, k))
        /\ (j = Len(ls) \/ ~LoopTest(construct, Line(ls, j)))

(***************************************************************************)
(* tokenizer.ts: one iteration of the main loop per rule.  Each operator   *)
(* gives the token pushed and the value of i at the continue statement.    *)
(***************************************************************************)
NewlineRule(ls, i0) == Step(BlockToken("newline", "\n", TRUE, i0), i0 + 1)

\* MathRule with the single-line token pushed as not complete
MathRuleUnclosedFlag(ls, i0) ==
    LET trimmed == TrimEnd(Line(ls, i0)) IN
    IF IsSingleLineMath(trimmed)
    THEN Step([BlockToken("math_block", trimmed, FALSE, i0)
                  EXCEPT !.text = Trim(SliceMid(trimmed, 2, 2))], i0 + 1)
    ELSE LET j == ScanWhile(ls, i0 + 1, "math")
             closed == j < Len(ls)
             next == IF closed THEN j + 1 ELSE j
             mathLines == LinesBetween(ls, i0 + 1, j)
         IN  Step([BlockToken("math_block", Join(mathLines, "\n"), closed, next - 1)
                      EXCEPT !.text = Trim(Join(mathLines, "\n"))], next)

MathRule(ls, i0) ==
    LET trimmed == TrimEnd(Line(ls, i0)) IN
    IF IsSingleLineMath(trimmed)
    THEN Step([BlockToken("math_block", trimmed, TRUE, i0)
                  EXCEPT !.text = Trim(SliceMid(trimmed, 2, 2))], i0 + 1)
    ELSE LET j == ScanWhile(ls, i0 + 1, "math")
             closed == j < Len(ls)
             next == IF closed THEN j + 1 ELSE j
             mathLines == LinesBetween(ls, i0 + 1, j)
         IN  Step([BlockToken("math_block", Join(mathLines, "\n"), closed, next - 1)
                      EXCEPT !.text = Trim(Join(mathLines, "\n"))], next)

\* the fence branch with isComplete: true on every code block
FenceRuleComplete(ls, i0) ==
    LET trimmed == TrimEnd(Line(ls, i0))
        lang == Trim(SliceFrom(trimmed, 3))
        j == ScanWhile(ls, i0 + 1, "fence")
        closed == j < Len(ls)
        next == IF closed THEN j + 1 ELSE j
        codeLines == LinesBetween(ls, i0 + 1, j)
    IN  Step([BlockToken("code_block", Join(codeLines, "\n"), TRUE, next - 1)
                 EXCEPT !.text = Join(codeLines, "\n"), !.lang = lang], next)

FenceRule(ls, i0) ==
    LET trimmed == TrimEnd(Line(ls, i0))
        lang == Trim(SliceFrom(trimmed, 3))
        j == ScanWhile(ls, i0 + 1, "fence")
        closed == j < Len(ls)
        next == IF closed THEN j + 1 ELSE j
        codeLines == LinesBetween(ls, i0 + 1, j)
    IN  Step([BlockToken("code_block", Join(codeLines, "\n"), closed, next - 1)
                 EXCEPT !.text = Join(codeLines, "\n"), !.lang = lang], next)

HeadingRule(ls, i0) ==
    LET trimmed == TrimEnd(Line(ls, i0)) IN
    Step([BlockToken("heading", trimmed, TRUE, i0)
             EXCEPT !.text = HeadingText(trimmed), !.depth = HeadingDepth(trimmed)], i0 + 1)

HrRule(ls, i0) == Step(BlockToken("hr", TrimEnd(Line(ls, i0)), TRUE, i0), i0 + 1)

QuoteRule(ls, i0) ==
    LET j == ScanWhile(ls, i0, "quote")
        src == LinesBetween(ls, i0, j)
        quoteLines == [k \in 1..Len(src) |-> StripQuote(TrimEnd(src[k]))]
        raw == Join(quoteLines, "\n")
    IN  IF Len(quoteLines) > 0 /\ CalloutMatch(quoteLines[1])
        THEN LET kw == CHOOSE kw \in CalloutKeywordOf(quoteLines[1]) : TRUE
                 title == CalloutRest(quoteLines[1], kw)
             IN  Step([BlockToken("callout", raw, TRUE, j - 1)
                          EXCEPT !.calloutType = kw,
                                 !.calloutTitle = IF title /= "" THEN title
                                                  ELSE SubSeq(quoteLines[1], 3, 2 + Len(kw)),
                                 !.body = Join(SeqFrom(quoteLines, 1), "\n")], j)
        ELSE Step([BlockToken("blockquote", raw, TRUE, j - 1) EXCEPT !.text = raw], j)

\* parseRow(tableLines[1]) reads a property of undefined and throws a
\* TypeError when the loop collected a single line
\* the table branch with tableLines.slice(1) as the body rows
TableRuleBodyFromAlign(ls, i0) ==
    LET j == ScanWhile(ls, i0, "table")
        tableLines == TrimEndAll(LinesBetween(ls, i0, j))
    IN  IF Len(tableLines) < 2
        THEN [tok |-> BlockToken("table", Join(tableLines, "\n"), TRUE, j - 1),
              next |-> j, threw |-> TRUE]
        ELSE LET alignLine == ParseRow(tableLines[2])
                 body == SeqFrom(tableLines, 1)
             IN  Step([BlockToken("table", Join(tableLines, "\n"), TRUE, j - 1)
                          EXCEPT !.header = ParseRow(tableLines[1]),
                                 !.align = [k \in 1..Len(alignLine) |-> AlignOf(alignLine[k])],
                                 !.rows = [k \in 1..Len(body) |-> ParseRow(body[k])]], j)

TableRule(ls, i0) ==
    LET j == ScanWhile(ls, i0, "table")
        tableLines == TrimEndAll(LinesBetween(ls, i0, j))
    IN  IF Len(tableLines) < 2
        THEN [tok |-> BlockToken("table", Join(tableLines, "\n"), TRUE, j - 1),
              next |-> j, threw |-> TRUE]
        ELSE LET alignLine == ParseRow(tableLines[2])
                 body == SeqFrom(tableLines, 2)
             IN  Step([BlockToken("table", Join(tableLines, "\n"), TRUE, j - 1)
                          EXCEPT !.header = ParseRow(tableLines[1]),
                                 !.align = [k \in 1..Len(alignLine) |-> AlignOf(alignLine[k])],
                                 !.rows = [k \in 1..Len(body) |-> ParseRow(body[k])]], j)

\* the list loops: items while the line matches, then a blank line is
\* consumed, any other line is left for the next iteration
AfterList(ls, j) == IF j < Len(ls) /\ Trim(Line(ls, j)) = "" THEN j + 1 ELSE j

UListRule(ls, i0, o) ==
    LET j == ScanWhile(ls, i0, "ulist")
        src == LinesBetween(ls, i0, j)
        listItems == [k \in 1..Len(src) |-> UListItem(src[k], o)]
        next == AfterList(ls, j)
    IN  Step([BlockToken("list", Join([k \in 1..Len(src) |-> listItems[k].content], "\n"),
                         TRUE, next - 1)
                 EXCEPT !.items = listItems, !.ordered = FALSE], next)

OListRule(ls, i0) ==
    LET j == ScanWhile(ls, i0, "olist")
        src == LinesBetween(ls, i0, j)
        listItems == [k \in 1..Len(src) |-> OListItem(src[k])]
        next == AfterList(ls, j)
    IN  Step([BlockToken("list", Join([k \in 1..Len(src) |-> listItems[k].content], "\n"),
                         TRUE, next - 1)
                 EXCEPT !.items = listItems, !.ordered = TRUE], next)

\* ParagraphRule with endOffset: i in place of endOffset: i - 1
ParagraphRuleEndAtNext(ls, i0) ==
    LET j == ScanWhile(ls, i0 + 1, "paragraph")
        paraLines == <<TrimEnd(Line(ls, i0))>> \o TrimEndAll(LinesBetween(ls, i0 + 1, j))
    IN  Step([BlockToken("paragraph", Join(paraLines, "\n"), TRUE, j)
                 EXCEPT !.text = Join(paraLines, "\n")], j)

ParagraphRule(ls, i0) ==
    LET j == ScanWhile(ls, i0 + 1, "paragraph")
        paraLines == <<TrimEnd(Line(ls, i0))>> \o TrimEndAll(LinesBetween(ls, i0 + 1, j))
    IN  Step([BlockToken("paragraph", Join(paraLines, "\n"), TRUE, j - 1)
                 EXCEPT !.text = Join(paraLines, "\n")], j)

\* the branch of the main loop that the line at i0 takes (first match wins)
\* the branches with the table test before the quote test
RuleAtTableFirst(ls, i0, o) ==
    LET line == Line(ls, i0)
        trimmed == TrimEnd(line)
    IN  IF IsBlank(trimmed) THEN "newline"
        ELSE IF IsMathStart(trimmed, o) THEN "math"
        ELSE IF IsFenceStart(trimmed) THEN "fence"
        ELSE IF HeadingMatch(trimmed) THEN "heading"
        ELSE IF IsHr(trimmed) THEN "hr"
        ELSE IF IsTableStart(ls, i0, o) THEN "table"
        ELSE IF StartsWith(trimmed, ">") THEN "quote"
        ELSE IF UListStart(line) THEN "ulist"
        ELSE IF OListStart(line) THEN "olist"
        ELSE "paragraph"

RuleAt(ls, i0, o) ==
    LET line == Line(ls, i0)
        trimmed == TrimEnd(line)
    IN  IF IsBlank(trimmed) THEN "newline"
        ELSE IF IsMathStart(trimmed, o) THEN "math"
        ELSE IF IsFenceStart(trimmed) THEN "fence"
        ELSE IF HeadingMatch(trimmed) THEN "heading"
        ELSE IF IsHr(trimmed) THEN "hr"
        ELSE IF StartsWith(trimmed, ">") THEN "quote"
        ELSE IF IsTableStart(ls, i0, o) THEN "table"
        ELSE IF UListStart(line) THEN "ulist"
        ELSE IF OListStart(line) THEN "olist"
        ELSE "paragraph"

ScanStep(ls, i0, o) ==
    LET rule == RuleAt(ls, i0, o) IN
    CASE rule = "newline" -> NewlineRule(ls, i0)
      [] rule = "math" -> MathRule(ls, i0)
      [] rule = "fence" -> FenceRule(ls, i0)
      [] rule = "heading" -> HeadingRule(ls, i0)
      [] rule = "hr" -> HrRule(ls, i0)
      [] rule = "quote" -> QuoteRule(ls, i0)
      [] rule = "table" -> TableRule(ls, i0)
      [] rule = "ulist" -> UListRule(ls, i0, o)
      [] rule = "olist" -> OListRule(ls, i0)
      [] OTHER -> ParagraphRule(ls, i0)

(***************************************************************************)
(* tokenize(markdown, options) as a function: the outcome of the call is   *)
(* "returned" with the tokens, "thrown" (TypeError), or "hung" when an     *)
(* iteration leaves i where it was, which the loop then repeats forever.   *)
(***************************************************************************)
RECURSIVE ScanFrom(_, _, _, _, _)
ScanFromAt(ls, i0, o, acc, at, st) ==
    IF st.threw THEN [outcome |-> "thrown", tokens |-> acc, starts |-> at]
    ELSE IF st.next <= i0
    THEN [outcome |-> "hung", tokens |-> Append(acc, st.tok), starts |-> Append(at, i0)]
    ELSE ScanFrom(ls, st.next, o, Append(acc, st.tok), Append(at, i0))

ScanFrom(ls, i0, o, acc, at) ==
    IF i0 >= Len(ls) THEN [outcome |-> "returned", tokens |-> acc, starts |-> at]
    ELSE ScanFromAt(ls, i0, o, acc, at, ScanStep(ls, i0, o))

tokenize(md, o) == ScanFrom(Split(md, "\n"), 0, o, <<>>, <<>>)

(***************************************************************************)
(* More string primitives, used by the renderer, the inline parser and the *)
(* sanitizer                                                               *)
(***************************************************************************)
Letters == UpperLetters \o LowerLetters

IsLetter(c) == c /= "" /\ Includes(Letters, c)

\* the regex class \w
IsWordChar(c) == IsLetter(c) \/ IsDigit(c) \/ c = "_"

\* s has d at position p (1-based)
StartsAt(s, p, d) ==
    p >= 1 /\ p + Len(d) - 1 <= Len(s) /\ SubSeq(s, p, p + Len(d) - 1) = d

\* s.slice(a - 1, b) for 1-based inclusive positions a..b, "" when empty
Sub(s, a, b) == IF a > b THEN "" ELSE SubSeq(s, a, b)

\* first position in lo..hi whose character is in stop, 0 when none
\* the first of two search results (0: not found)
FirstOf(left, right) == IF left /= 0 THEN left ELSE right

RECURSIVE FirstIn(_, _, _, _)
FirstIn(s, lo, hi, stop) ==
    IF lo > hi THEN 0
    ELSE IF lo = hi THEN (IF At(s, lo) \in stop THEN lo ELSE 0)
    ELSE FirstOf(FirstIn(s, lo, (lo + hi) \div 2, stop),
                 FirstIn(s, (lo + hi) \div 2 + 1, hi, stop))

\* first position q >= p whose character is in stop, Len(s) + 1 when none
RunEnd(s, p, stop) ==
    IF FirstIn(s, p, Len(s), stop) = 0 THEN Len(s) + 1 ELSE FirstIn(s, p, Len(s), stop)

\* (?<!c)c(?!c) when lone, c otherwise, for a one-character delimiter; the
\* delimiter d itself for a longer one
DelimAt(s, p, d, lone) ==
    /\ StartsAt(s, p, d)
    /\ lone => (At(s, p - 1) /= d /\ At(s, p + 1) /= d)

\* first position in lo..hi at which the delimiter d stands, 0 when none
RECURSIVE FirstDelim(_, _, _, _, _)
FirstDelim(s, lo, hi, d, lone) ==
    IF lo > hi THEN 0
    ELSE IF lo = hi THEN (IF DelimAt(s, lo, d, lone) THEN lo ELSE 0)
    ELSE FirstOf(FirstDelim(s, lo, (lo + hi) \div 2, d, lone),
                 FirstDelim(s, (lo + hi) \div 2 + 1, hi, d, lone))

\* the characters lo..hi of s with every c replaced by r
RECURSIVE ReplaceRange(_, _, _, _, _)
ReplaceRange(s, lo, hi, c, r) ==
    IF lo > hi THEN ""
    ELSE IF lo = hi THEN (IF At(s, lo) = c THEN r ELSE At(s, lo))
    ELSE ReplaceRange(s, lo, (lo + hi) \div 2, c, r)
         \o ReplaceRange(s, (lo + hi) \div 2 + 1, hi, c, r)

\* str.replace(/c/g, r) for a single character c
ReplaceChar(s, c, r) == ReplaceRange(s, 1, Len(s), c, r)

\* utils/escape escapeHtml: & first, then < > "
escapeHtml(str) ==
    ReplaceChar(ReplaceChar(ReplaceChar(ReplaceChar(str, "&", "&amp;"),
                                        "<", "&lt;"), ">", "&gt;"), "\"", "&quot;")

\* decimal digits of a natural number (template-literal interpolation)
RECURSIVE NumToString(_)
NumToString(n) ==
    IF n < 10 THEN At("0123456789", n + 1)
    ELSE NumToString(n \div 10) \o At("0123456789", (n % 10) + 1)

(***************************************************************************)
(* math-renderer.ts for LaTeX without commands, scripts, groups and        *)
(* ampersands: tokenize skips blanks and tabs and makes every other        *)
(* character a text token, which renderChar renders.                       *)
(***************************************************************************)
renderChar(ch) ==
    IF IsDigit(ch) THEN "<mn>" \o ch \o "</mn>"
    ELSE IF IsLetter(ch) THEN "<mi>" \o ch \o "</mi>"
    ELSE IF ch \in {"(", ")", "[", "]"} THEN "<mo>" \o ch \o "</mo>"
    ELSE "<mo>" \o escapeHtml(ch) \o "</mo>"

RECURSIVE tokensToMathML(_, _, _)
tokensToMathML(latex, lo, hi) ==
    IF lo > hi THEN ""
    ELSE IF lo = hi
    THEN (IF At(latex, lo) \in {" ", "\t"} THEN "" ELSE renderChar(At(latex, lo)))
    ELSE tokensToMathML(latex, lo, (lo + hi) \div 2)
         \o tokensToMathML(latex, (lo + hi) \div 2 + 1, hi)

latexToMathML(latex) == tokensToMathML(Trim(latex), 1, Len(Trim(latex)))

renderInlineMath(latex) ==
    "<math xmlns=\"http://www.w3.org/1998/Math/MathML\">" \o latexToMathML(latex) \o "</math>"

renderDisplayMath(latex) ==
    "<math xmlns=\"http://www.w3.org/1998/Math/MathML\" display=\"block\">"
        \o latexToMathML(latex) \o "</math>"

(***************************************************************************)
(* highlight.ts.  For code in which the grammar finds no token, which is   *)
(* the code the model's inputs hold, Prism.highlight returns the text with *)
(* & and < encoded.                                                        *)
(***************************************************************************)
LANG_ALIASES ==
    [js |-> "javascript", ts |-> "typescript", py |-> "python", rb |-> "ruby",
     sh |-> "bash", shell |-> "bash", zsh |-> "bash", yml |-> "yaml",
     html |-> "markup", xml |-> "markup", svg |-> "markup", cs |-> "csharp",
     objc |-> "c", jsonc |-> "json"]

ResolveLang(normalized) ==
    IF normalized \in DOMAIN LANG_ALIASES THEN LANG_ALIASES[normalized]
    ELSE IF normalized = "c++" THEN "cpp"
    ELSE IF normalized = "objective-c" THEN "c"
    ELSE normalized

PrismLanguages ==
    {"javascript", "typescript", "jsx", "tsx", "css", "python", "bash", "json",
     "markdown", "yaml", "sql", "rust", "go", "java", "c", "cpp", "csharp", "ruby",
     "php", "swift", "kotlin", "dart", "markup"}

PrismHighlight(code) == ReplaceChar(ReplaceChar(code, "&", "&amp;"), "<", "&lt;")

highlightCode(code, lang) ==
    IF lang = "" THEN escapeHtml(code)
    ELSE IF ResolveLang(Trim(ToLowerCase(lang))) \notin PrismLanguages THEN escapeHtml(code)
    ELSE PrismHighlight(code)

displayNames ==
    [javascript |-> "JavaScript", typescript |-> "TypeScript", python |-> "Python",
     bash |-> "Bash", json |-> "JSON", css |-> "CSS", html |-> "HTML", jsx |-> "JSX",
     tsx |-> "TSX", sql |-> "SQL", yaml |-> "YAML", rust |-> "Rust", go |-> "Go",
     java |-> "Java", c |-> "C", cpp |-> "C++", csharp |-> "C#", ruby |-> "Ruby",
     php |-> "PHP", swift |-> "Swift", kotlin |-> "Kotlin", dart |-> "Dart",
     markdown |-> "Markdown", markup |-> "HTML"]

getLanguageDisplayName(lang) ==
    IF ResolveLang(ToLowerCase(lang)) \in DOMAIN displayNames
    THEN displayNames[ResolveLang(ToLowerCase(lang))]
    ELSE lang

(***************************************************************************)
(* mermaid-renderer.ts renderMermaid for code whose first line names no    *)
(* diagram kind: the fallback block.                                       *)
(***************************************************************************)
escapeXml(str) == ReplaceChar(escapeHtml(str), "'", "&apos;")

renderMermaid(code) ==
    "<div class=\"mermaid-fallback\">\n      <div style=\"padding:16px;background:#f8fafc;border:1px solid #e2e8f0;border-radius:8px;font-family:monospace;font-size:13px;white-space:pre-wrap;color:#475569;\">\n        <div style=\"font-weight:600;margin-bottom:8px;color:#6366f1;\">Mermaid Diagram</div>\n        "
        \o escapeXml(Trim(code)) \o "\n      </div>\n    </div>"

(***************************************************************************)
(* inline-parser.ts.  Each step is one global regex replace: the string is *)
(* scanned left to right, a match is replaced and the scan goes on after   *)
(* it, an unmatched character is copied.  Look-behinds read the scanned    *)
(* string, so the scan keeps the string and moves a position.              *)
(***************************************************************************)
\* (.+?) then the closing delimiter: the first position q > from at which
\* the closing delimiter stands, with from..q-1 free of line terminators;
\* 0 when there is none
LazyClose(s, from, close, lone) ==
    FirstDelim(s, from + 1, RunEnd(s, from, LineTerminators) - 1, close, lone)

\* position of the closing delimiter of a span opened at p, 0 when no span
\* starts at p
SpanClose(s, p, open, close, lone) ==
    IF DelimAt(s, p, open, lone) THEN LazyClose(s, p + Len(open), close, lone) ELSE 0

\* s.replace(/open(.+?)close/g, pre $1 post) from position p on; q is the
\* next position at which the opening delimiter stands
RECURSIVE ReplaceLazy(_, _, _, _, _, _, _)
ReplaceLazyAt(s, p, q, open, close, lone, pre, post) ==
    IF q = 0 THEN Sub(s, p, Len(s))
    ELSE IF SpanClose(s, q, open, close, lone) /= 0
    THEN Sub(s, p, q - 1) \o pre
         \o Sub(s, q + Len(open), SpanClose(s, q, open, close, lone) - 1) \o post
         \o ReplaceLazy(s, SpanClose(s, q, open, close, lone) + Len(close),
                        open, close, lone, pre, post)
    ELSE Sub(s, p, q) \o ReplaceLazy(s, q + 1, open, close, lone, pre, post)

ReplaceLazy(s, p, open, close, lone, pre, post) ==
    ReplaceLazyAt(s, p, FirstDelim(s, p, Len(s), open, lone), open, close, lone, pre, post)

\* c([^...]+)c : the run of characters outside stop that starts after p is
\* not empty and ends at the delimiter c (c is in stop); 0 when not
ClassClose(s, p, c, stop) ==
    IF At(s, p) = c /\ RunEnd(s, p + 1, stop) > p + 1 /\ At(s, RunEnd(s, p + 1, stop)) = c
    THEN RunEnd(s, p + 1, stop)
    ELSE 0

\* s.replace(/c([^...]+)c/g, pre $1 post) from position p on
RECURSIVE ReplaceClass(_, _, _, _, _, _)
ReplaceClassAt(s, p, q, c, stop, pre, post) ==
    IF q = 0 THEN Sub(s, p, Len(s))
    ELSE IF ClassClose(s, q, c, stop) /= 0
    THEN Sub(s, p, q - 1) \o pre \o Sub(s, q + 1, ClassClose(s, q, c, stop) - 1) \o post
         \o ReplaceClass(s, ClassClose(s, q, c, stop) + 1, c, stop, pre, post)
    ELSE Sub(s, p, q) \o ReplaceClass(s, q + 1, c, stop, pre, post)

ReplaceClass(s, p, c, stop, pre, post) ==
    ReplaceClassAt(s, p, FirstIn(s, p, Len(s), {c}), c, stop, pre, post)

\* 2. inline math: the replacement is renderInlineMath($1)
RECURSIVE ReplaceInlineMath(_, _)
ReplaceInlineMathAt(s, p, q) ==
    IF q = 0 THEN Sub(s, p, Len(s))
    ELSE IF SpanClose(s, q, "$", "$", TRUE) /= 0
    THEN Sub(s, p, q - 1)
         \o renderInlineMath(Sub(s, q + 1, SpanClose(s, q, "$", "$", TRUE) - 1))
         \o ReplaceInlineMath(s, SpanClose(s, q, "$", "$", TRUE) + 1)
    ELSE Sub(s, p, q) \o ReplaceInlineMath(s, q + 1)

ReplaceInlineMath(s, p) == ReplaceInlineMathAt(s, p, FirstDelim(s, p, Len(s), "$", TRUE))

\* \[([^\]]*)\]\(([^)]+)\) at position p: the positions of ] and of ), or
\* <<0, 0>>; least is the least length of the bracketed text
LinkAt(s, p, least) ==
    LET rb == RunEnd(s, p + 1, {"]"})
        rp == RunEnd(s, rb + 2, {")"})
    IN  IF /\ At(s, p) = "["
           /\ rb - (p + 1) >= least
           /\ StartsAt(s, rb, "](")
           /\ rp > rb + 2
           /\ At(s, rp) = ")"
        THEN <<rb, rp>>
        ELSE <<0, 0>>

\* /^\s*(javascript|vbscript|data)\s*:/i
DANGEROUS_PROTOCOL(href) ==
    \E proto \in {"javascript", "vbscript", "data"} :
        LET a == LeadWs(href) + 1
            rest == SliceFrom(href, a - 1 + Len(proto))
        IN  /\ Len(href) >= a - 1 + Len(proto)
            /\ ToLowerCase(Sub(href, a, a - 1 + Len(proto))) = proto
            /\ At(rest, LeadWs(rest) + 1) = ":"

\* sanitizeHref with the pattern anchored at the first character (no ^\s*)
sanitizeHrefNoSpace(href) ==
    IF DANGEROUS_PROTOCOL(href) /\ LeadWs(href) = 0 THEN "#" ELSE href

sanitizeHref(href) == IF DANGEROUS_PROTOCOL(href) THEN "#" ELSE href

ImageHtml(alt, src) ==
    "<img src=\"" \o src \o "\" alt=\"" \o alt \o "\" class=\"sd-image\" loading=\"lazy\" />"

LinkHtml(text, href) ==
    "<a href=\"" \o sanitizeHref(href)
        \o "\" class=\"sd-link\" target=\"_blank\" rel=\"noopener noreferrer\">" \o text \o "</a>"

\* 3. images
RECURSIVE ReplaceImages(_, _)
ReplaceImagesAt(s, p, q) ==
    IF q = 0 THEN Sub(s, p, Len(s))
    ELSE IF LinkAt(s, q + 1, 0)[1] /= 0
    THEN Sub(s, p, q - 1)
         \o ImageHtml(Sub(s, q + 2, LinkAt(s, q + 1, 0)[1] - 1),
                      Sub(s, LinkAt(s, q + 1, 0)[1] + 2, LinkAt(s, q + 1, 0)[2] - 1))
         \o ReplaceImages(s, LinkAt(s, q + 1, 0)[2] + 1)
    ELSE Sub(s, p, q) \o ReplaceImages(s, q + 1)

ReplaceImages(s, p) == ReplaceImagesAt(s, p, FirstIn(s, p, Len(s), {"!"}))

\* 4. links
RECURSIVE ReplaceLinks(_, _)
ReplaceLinksAt(s, p, q) ==
    IF q = 0 THEN Sub(s, p, Len(s))
    ELSE IF LinkAt(s, q, 1)[1] /= 0
    THEN Sub(s, p, q - 1)
         \o LinkHtml(Sub(s, q + 1, LinkAt(s, q, 1)[1] - 1),
                     Sub(s, LinkAt(s, q, 1)[1] + 2, LinkAt(s, q, 1)[2] - 1))
         \o ReplaceLinks(s, LinkAt(s, q, 1)[2] + 1)
    ELSE Sub(s, p, q) \o ReplaceLinks(s, q + 1)

ReplaceLinks(s, p) == ReplaceLinksAt(s, p, FirstIn(s, p, Len(s), {"["}))

InlineCode(s) ==
    ReplaceClass(s, 1, BackTick, {BackTick}, "<code class=\"sd-inline-code\">", "</code>")

\* the inline math step without the streaming test
InlineMathWhileStreaming(s, o) == IF o.math THEN ReplaceInlineMath(s, 1) ELSE s

InlineMath(s, o) == IF o.math /\ ~o.streaming THEN ReplaceInlineMath(s, 1) ELSE s

BoldItalic(s) ==
    ReplaceLazy(ReplaceLazy(s, 1, "***", "***", FALSE, "<strong><em>", "</em></strong>"),
                1, "___", "___", FALSE, "<strong><em>", "</em></strong>")

Bold(s) ==
    ReplaceLazy(ReplaceLazy(s, 1, "**", "**", FALSE, "<strong>", "</strong>"),
                1, "__", "__", FALSE, "<strong>", "</strong>")

Italic(s) ==
    ReplaceLazy(ReplaceLazy(s, 1, "*", "*", TRUE, "<em>", "</em>"),
                1, "_", "_", TRUE, "<em>", "</em>")

Strikethrough(s, o) ==
    IF o.gfm THEN ReplaceLazy(s, 1, "~~", "~~", FALSE, "<del>", "</del>") ELSE s

Superscript(s) == ReplaceClass(s, 1, "^", WhiteSpaceChars \cup {"^"}, "<sup>", "</sup>")

Highlight(s) == ReplaceLazy(s, 1, "==", "==", FALSE, "<mark>", "</mark>")

\* 11. plugin inline rules, in registration order.  The inline rule of the
\* model, "strip", is { pattern: /@/g, render: () => '' }.
InlineRuleReplace(rule, s) == IF rule = "strip" THEN ReplaceChar(s, "@", "") ELSE s

RECURSIVE ExtraRules(_, _)
ExtraRules(plugins, s) ==
    IF Len(plugins) = 0 THEN s
    ELSE ExtraRules(Tail(plugins),
                    IF plugins[1].inlineRule /= "none"
                    THEN InlineRuleReplace(plugins[1].inlineRule, s) ELSE s)

\* the steps in the order of the source; extraRules are the inline rules of
\* the plugins of o (getInlineRules)
processInline(text, o) ==
    ExtraRules(o.plugins,
        Highlight(Superscript(Strikethrough(Italic(Bold(BoldItalic(
            ReplaceLinks(ReplaceImages(InlineMath(InlineCode(text), o), 1), 1)))), o))))

(***************************************************************************)
(* core/renderer.ts: one HTML fragment per token.  The pictographs of the  *)
(* source (callout icons, check boxes) are written as ASCII names.         *)
(***************************************************************************)
CALLOUT_ICONS ==
    [note |-> "[memo]", tip |-> "[bulb]", warning |-> "[warning]",
     caution |-> "[red]", important |-> "[!]"]

\* arr.map(processInline).join('<br />\n')
RECURSIVE InlineLines(_, _)
InlineLines(ls, o) ==
    IF Len(ls) = 0 THEN ""
    ELSE IF Len(ls) = 1 THEN processInline(ls[1], o)
    ELSE processInline(ls[1], o) \o "<br />\n" \o InlineLines(Tail(ls), o)

\* text.toLowerCase().replace(/[^a-z0-9]+/g, '-') : every run of other
\* characters becomes one '-'
IsSlugChar(c) == c /= "" /\ (Includes(LowerLetters, c) \/ IsDigit(c))

RECURSIVE DashRuns(_, _, _)
DashRuns(s, lo, hi) ==
    IF lo > hi THEN ""
    ELSE IF lo = hi
    THEN (IF IsSlugChar(At(s, lo)) THEN At(s, lo)
          ELSE IF lo = 1 \/ IsSlugChar(At(s, lo - 1)) THEN "-" ELSE "")
    ELSE DashRuns(s, lo, (lo + hi) \div 2) \o DashRuns(s, (lo + hi) \div 2 + 1, hi)

\* .replace(/(^-|-$)/g, '')
StripDashes(s) ==
    LET a == IF StartsWith(s, "-") THEN SliceFrom(s, 1) ELSE s
    IN  IF EndsWith(a, "-") THEN Sub(a, 1, Len(a) - 1) ELSE a

HeadingId(text) == StripDashes(DashRuns(ToLowerCase(text), 1, Len(text)))

renderHeading(token, o) ==
    LET level == NumToString(IF token.depth = 0 THEN 1 ELSE token.depth) IN
    "<h" \o level \o " id=\"" \o HeadingId(token.text) \o "\" class=\"sd-h" \o level \o "\">"
        \o processInline(token.text, o) \o "</h" \o level \o ">"

renderParagraph(token, o) ==
    "<p class=\"sd-p\">" \o InlineLines(Split(token.text, "\n"), o) \o "</p>"

\* what stands for the fragment of a token whose rendering threw
Aborted == "(exception)"

\* The collaborators of the model (renderMermaid, highlightCode) return, so
\* the catch branches are not taken; options.onCodeBlock is the caller's
\* function, "noop" or "throws", and is called outside any try block.
renderCodeBlock(token, o) ==
    IF o.mermaid /\ ToLowerCase(token.lang) = "mermaid"
    THEN "<div class=\"sd-mermaid\">" \o renderMermaid(token.text) \o "</div>"
    ELSE IF token.lang /= "" /\ token.text /= "" /\ o.onCodeBlock = "throws"
    THEN Aborted
    ELSE "<div class=\"sd-code-block\">"
         \o (IF token.lang /= "" /\ getLanguageDisplayName(token.lang) /= ""
             THEN "<div class=\"sd-code-lang\">"
                      \o escapeHtml(getLanguageDisplayName(token.lang)) \o "</div>"
             ELSE "")
         \o "<pre class=\"sd-pre\"><code class=\"language-"
         \o escapeHtml(IF token.lang /= "" THEN token.lang ELSE "text") \o "\">"
         \o (IF o.highlight THEN highlightCode(token.text, token.lang)
             ELSE escapeHtml(token.text))
         \o "</code></pre></div>"

renderMathBlock(token) ==
    "<div class=\"sd-math-display\">" \o renderDisplayMath(token.text) \o "</div>"

renderBlockquote(token, o) ==
    "<blockquote class=\"sd-blockquote\"><p class=\"sd-p\">"
        \o InlineLines(Split(token.text, "\n"), o) \o "</p></blockquote>"

\* bodyLines.filter(l => l.trim())
RECURSIVE NonBlank(_)
NonBlank(ls) ==
    IF Len(ls) = 0 THEN <<>>
    ELSE (IF Trim(ls[1]) /= "" THEN <<ls[1]>> ELSE <<>>) \o NonBlank(Tail(ls))

renderCallout(token, o) ==
    LET type == IF token.calloutType = "" THEN "note" ELSE token.calloutType
        title == IF token.calloutTitle = "" THEN type ELSE token.calloutTitle
        icon == IF type \in DOMAIN CALLOUT_ICONS THEN CALLOUT_ICONS[type] ELSE "[pin]"
    IN  "<div class=\"sd-callout sd-callout-" \o type \o "\"><div class=\"sd-callout-title\">"
            \o icon \o " " \o escapeHtml(title) \o "</div><div class=\"sd-callout-body\">"
            \o InlineLines(NonBlank(Split(token.body, "\n")), o) \o "</div></div>"

AlignAt(aligns, k) == IF k <= Len(aligns) THEN aligns[k] ELSE "left"

RECURSIVE TableCells(_, _, _, _, _)
TableCells(tag, row, aligns, k, n) ==
    IF k > n THEN ""
    ELSE "<" \o tag \o " style=\"text-align:" \o AlignAt(aligns, k) \o "\">"
         \o (IF k <= Len(row) THEN row[k] ELSE "") \o "</" \o tag \o ">"
         \o TableCells(tag, row, aligns, k + 1, n)

RECURSIVE TableRows(_, _, _)
TableRows(rows, aligns, n) ==
    IF Len(rows) = 0 THEN ""
    ELSE "<tr>" \o TableCells("td", rows[1], aligns, 1, n) \o "</tr>"
         \o TableRows(Tail(rows), aligns, n)

renderTable(token) ==
    "<div class=\"sd-table-wrapper\"><table class=\"sd-table\"><thead><tr>"
        \o TableCells("th", token.header, token.align, 1, Len(token.header))
        \o "</tr></thead><tbody>"
        \o TableRows(token.rows, token.align, Len(token.header))
        \o "</tbody></table></div>"

ListItemHtml(item, o) ==
    LET indentStyle == IF item.indent > 0
                       THEN " style=\"margin-left:" \o NumToString(item.indent * 10) \o "px\""
                       ELSE ""
    IN  IF item.checked /= Undefined
        THEN "<li class=\"sd-li sd-task-item\"" \o indentStyle \o "><span class=\"sd-checkbox\">"
                 \o (IF item.checked = "true" THEN "[x]" ELSE "[ ]") \o "</span> "
                 \o processInline(item.content, o) \o "</li>"
        ELSE "<li class=\"sd-li\"" \o indentStyle \o ">" \o processInline(item.content, o) \o "</li>"

renderList(token, o) ==
    LET tag == IF token.ordered THEN "ol" ELSE "ul" IN
    Join(<<"<" \o tag \o " class=\"sd-list sd-" \o tag \o "\">">>
             \o [k \in 1..Len(token.items) |-> ListItemHtml(token.items[k], o)]
             \o <<"</" \o tag \o ">">>, "\n")

renderSingleToken(token, o) ==
    CASE token.type = "heading" -> renderHeading(token, o)
      [] token.type = "paragraph" -> renderParagraph(token, o)
      [] token.type = "code_block" -> renderCodeBlock(token, o)
      [] token.type = "math_block" -> renderMathBlock(token)
      [] token.type = "hr" -> "<hr class=\"sd-hr\" />"
      [] token.type = "blockquote" -> renderBlockquote(token, o)
      [] token.type = "callout" -> renderCallout(token, o)
      [] token.type = "table" -> renderTable(token)
      [] token.type = "list" -> renderList(token, o)
      [] OTHER -> ""

(***************************************************************************)
(* plugins/plugin-api.ts.  A plugin of the model is a record naming the    *)
(* behaviour of its hooks: renderToken "blank" returns the empty string    *)
(* for every token, "decline" returns null, "none" is no hook; postProcess *)
(* "mark" appends a comment, "none" is no hook.                            *)
(***************************************************************************)
Null == "null"

PluginRenderToken(plugin, token, default) ==
    CASE plugin.renderToken = "blank" -> ""
      [] OTHER -> Null

RECURSIVE ManagerRenderToken(_, _, _)
ManagerRenderToken(plugins, token, default) ==
    IF Len(plugins) = 0 THEN default
    ELSE IF plugins[1].renderToken /= "none"
            /\ PluginRenderToken(plugins[1], token, default) /= Null
    THEN PluginRenderToken(plugins[1], token, default)
    ELSE ManagerRenderToken(Tail(plugins), token, default)

PluginPostProcess(plugin, html) ==
    IF plugin.postProcess = "mark" THEN html \o "<!--" \o plugin.name \o "-->" ELSE html

RECURSIVE applyPostProcessors(_, _)
applyPostProcessors(plugins, html) ==
    IF Len(plugins) = 0 THEN html
    ELSE applyPostProcessors(Tail(plugins),
             IF plugins[1].postProcess /= "none"
             THEN PluginPostProcess(plugins[1], html) ELSE html)

\* the tokens renderTokens hands to the token renderer: all but the newlines
RECURSIVE Rendered(_)
Rendered(toks) ==
    IF Len(toks) = 0 THEN <<>>
    ELSE (IF toks[1].type /= "newline" THEN <<toks[1]>> ELSE <<>>) \o Rendered(Tail(toks))

\* the fragment pushed to output for one token
Fragment(token, o) == ManagerRenderToken(o.plugins, token, renderSingleToken(token, o))

\* output after one more fragment; a fragment whose rendering threw ends
\* the loop with nothing returned
PushFragment(output, sep, fragment) ==
    IF fragment = Aborted THEN Aborted ELSE output \o sep \o fragment

\* the loop over the tokens and output.join('\n'); output holds the
\* fragments pushed so far, joined
RECURSIVE JoinFragments(_, _, _, _)
JoinFragments(toks, o, output, sep) ==
    IF Len(toks) = 0 \/ output = Aborted THEN output
    ELSE JoinFragments(Tail(toks), o, PushFragment(output, sep, Fragment(toks[1], o)), "\n")

\* Aborted when the rendering of a token throws: nothing catches it
renderTokens(toks, o) == JoinFragments(Rendered(toks), o, "", "")

(***************************************************************************)
(* utils/sanitizer.ts                                                      *)
(***************************************************************************)
ALLOWED_TAGS ==
    {"p", "div", "span", "br", "hr", "h1", "h2", "h3", "h4", "h5", "h6",
     "strong", "em", "b", "i", "u", "del", "s", "mark", "sup", "sub", "code", "kbd",
     "a", "img", "ul", "ol", "li",
     "table", "thead", "tbody", "tfoot", "tr", "th", "td", "caption", "colgroup", "col",
     "blockquote", "pre",
     "math", "mrow", "mi", "mn", "mo", "ms", "mtext", "mspace",
     "msup", "msub", "msubsup", "munder", "mover", "munderover",
     "mfrac", "msqrt", "mroot", "mtable", "mtr", "mtd",
     "mfenced", "menclose", "mpadded", "mphantom", "mstyle", "merror",
     "svg", "g", "path", "rect", "circle", "ellipse", "line", "polyline", "polygon",
     "text", "tspan", "defs", "marker", "use", "clippath"}

ALLOWED_ATTRS ==
    {"id", "class", "style", "title", "lang", "dir", "href", "target", "rel",
     "src", "alt", "width", "height", "loading", "colspan", "rowspan", "scope",
     "viewbox", "xmlns", "fill", "stroke", "stroke-width", "d", "x", "y",
     "cx", "cy", "r", "rx", "ry", "x1", "y1", "x2", "y2",
     "transform", "text-anchor", "dominant-baseline", "font-size", "font-family",
     "font-weight", "opacity", "stroke-dasharray", "marker-end", "marker-start",
     "points", "refx", "refy", "markerwidth", "markerheight", "orient",
     "preserveaspectratio", "clip-path",
     "mathvariant", "displaystyle", "display", "stretchy", "fence", "separator",
     "lspace", "rspace", "minsize", "maxsize", "movablelimits", "accent",
     "columnspacing", "rowspacing", "columnalign", "rowalign", "columnlines",
     "rowlines", "frame"}

\* the tags removed together with their content
StrippedTags ==
    {"script", "iframe", "object", "embed", "form", "style", "link", "meta", "base"}

\* /^on[a-z]/i on a lower-cased attribute name
EVENT_ATTR_PATTERN(name) == StartsWith(name, "on") /\ Includes(LowerLetters, At(name, 3))

\* the regex assertion \b between positions p - 1 and p
WordBoundary(s, p) == IsWordChar(At(s, p - 1)) /= IsWordChar(At(s, p))

\* <(script|...)\b at position p: the tag names that match there
StrippedAt(s, p) ==
    {t \in StrippedTags :
        /\ At(s, p) = "<"
        /\ p + Len(t) <= Len(s)
        /\ ToLowerCase(SubSeq(s, p + 1, p + Len(t))) = t
        /\ WordBoundary(s, p + 1 + Len(t))}

\* first position in lo..hi at which s has d in any letter case, 0 when none
RECURSIVE FindNoCase(_, _, _, _)
FindNoCase(s, lo, hi, d) ==
    IF lo > hi THEN 0
    ELSE IF lo = hi
    THEN (IF lo + Len(d) - 1 <= Len(s) /\ ToLowerCase(SubSeq(s, lo, lo + Len(d) - 1)) = d
          THEN lo ELSE 0)
    ELSE FirstOf(FindNoCase(s, lo, (lo + hi) \div 2, d),
                 FindNoCase(s, (lo + hi) \div 2 + 1, hi, d))

\* <(tag)\b[^>]*>[\s\S]*?<\/\1> at position p: the position of its last
\* character, 0 when it does not match
StrippedPairEnd(s, p) ==
    IF StrippedAt(s, p) = {} THEN 0
    ELSE LET t == CHOOSE t \in StrippedAt(s, p) : TRUE
             gt == RunEnd(s, p + 1 + Len(t), {">"})
             close == IF gt > Len(s) THEN 0
                      ELSE FindNoCase(s, gt + 1, Len(s), "</" \o t \o ">")
         IN  IF close = 0 THEN 0 ELSE close + Len(t) + 2

\* <(tag)\b[^>]*\/?> at position p: the position of its >, 0 when none
StrippedTagEnd(s, p) ==
    IF StrippedAt(s, p) = {} THEN 0
    ELSE LET t == CHOOSE t \in StrippedAt(s, p) : TRUE
             gt == RunEnd(s, p + 1 + Len(t), {">"})
         IN  IF gt > Len(s) THEN 0 ELSE gt

\* the three replaces scan from position p; q is the next position of a <
RECURSIVE RemovePairs(_, _)
RemovePairsAt(s, p, q) ==
    IF q = 0 THEN Sub(s, p, Len(s))
    ELSE IF StrippedPairEnd(s, q) /= 0
    THEN Sub(s, p, q - 1) \o RemovePairs(s, StrippedPairEnd(s, q) + 1)
    ELSE Sub(s, p, q) \o RemovePairs(s, q + 1)

RemovePairs(s, p) == RemovePairsAt(s, p, FirstIn(s, p, Len(s), {"<"}))

RECURSIVE RemoveTags(_, _)
RemoveTagsAt(s, p, q) ==
    IF q = 0 THEN Sub(s, p, Len(s))
    ELSE IF StrippedTagEnd(s, q) /= 0
    THEN Sub(s, p, q - 1) \o RemoveTags(s, StrippedTagEnd(s, q) + 1)
    ELSE Sub(s, p, q) \o RemoveTags(s, q + 1)

RemoveTags(s, p) == RemoveTagsAt(s, p, FirstIn(s, p, Len(s), {"<"}))

escapeAttrValue(value) == ReplaceChar(value, "\"", "&quot;")

\* end (exclusive) of the run of name characters [a-zA-Z0-9_-] from p
NameChars == {At(Letters \o "0123456789_-", k) : k \in 1..64}

AttrNameEnd(s, p) ==
    CHOOSE e \in p..(Len(s) + 1) :
        /\ \A k \in p..(e - 1) : At(s, k) \in NameChars
        /\ At(s, e) \notin NameChars

\* (?:=\s*(?:"([^"]*)"|'([^']*)'|([^\s>]+)))? at position p (after the name
\* and the white space): the value and the position after the match; the
\* group matches nothing when no alternative does
AttrValueAt(s, p) ==
    LET v == SkipWs(s, p + 1)
        qt == At(s, v)
        qe == RunEnd(s, v + 1, {qt})
        ue == RunEnd(s, v, WhiteSpaceChars \cup {">"})
    IN  IF At(s, p) /= "=" THEN [value |-> "", next |-> p]
        ELSE IF qt \in {"\"", "'"} /\ qe <= Len(s)
        THEN [value |-> Sub(s, v + 1, qe - 1), next |-> qe + 1]
        ELSE IF ue > v THEN [value |-> Sub(s, v, ue - 1), next |-> ue]
        ELSE [value |-> "", next |-> p]

\* the text pushed for one attribute, "" when it is dropped
CleanAttr(name, value) ==
    IF EVENT_ATTR_PATTERN(name) THEN ""
    ELSE IF name \notin ALLOWED_ATTRS THEN ""
    ELSE IF name \in {"href", "src"} /\ DANGEROUS_PROTOCOL(value) THEN ""
    ELSE " " \o name \o "=\"" \o escapeAttrValue(value) \o "\""

\* the exec loop of sanitizeAttributes from position p of attrString
LetterChars == {At(Letters, k) : k \in 1..52}

RECURSIVE AttrsFrom(_, _)
AttrsFromAt(s, q) ==
    IF q = 0 THEN ""
    ELSE CleanAttr(ToLowerCase(Sub(s, q, AttrNameEnd(s, q) - 1)),
                   AttrValueAt(s, SkipWs(s, AttrNameEnd(s, q))).value)
         \o AttrsFrom(s, AttrValueAt(s, SkipWs(s, AttrNameEnd(s, q))).next)

AttrsFrom(s, p) == AttrsFromAt(s, FirstIn(s, p, Len(s), LetterChars))

sanitizeAttributes(attrString) == AttrsFrom(attrString, 1)

\* end (exclusive) of the run [a-zA-Z0-9-] from p
TagNameRun(s, p) ==
    CHOOSE e \in p..(Len(s) + 1) :
        /\ \A k \in p..(e - 1) : At(s, k) \in NameChars \ {"_"}
        /\ At(s, e) \notin NameChars \ {"_"}

\* ([a-zA-Z][a-zA-Z0-9-]*)\b from position p: the end (exclusive) of the
\* longest name after which \b holds, 0 when there is none
TagNameEnd(s, p) ==
    LET ends == {e \in (p + 1)..TagNameRun(s, p) : WordBoundary(s, e)}
    IN  IF ~IsLetter(At(s, p)) \/ ends = {} THEN 0
        ELSE CHOOSE e \in ends : \A f \in ends : f <= e

\* <\/?([a-zA-Z][a-zA-Z0-9-]*)\b([^>]*)\/?\s*> at position p: where the name
\* starts and ends and where the > is; gt = 0 when it does not match
TagAt(s, p) ==
    LET n0 == IF At(s, p + 1) = "/" THEN p + 2 ELSE p + 1
        n1 == TagNameEnd(s, n0)
        gt == RunEnd(s, n1, {">"})
    IN  IF At(s, p) /= "<" \/ n1 = 0 \/ gt > Len(s)
        THEN [from |-> 0, to |-> 0, gt |-> 0]
        ELSE [from |-> n0, to |-> n1, gt |-> gt]

\* the callback of the third replace
CleanTag(s, p, m) ==
    LET tag == ToLowerCase(Sub(s, m.from, m.to - 1)) IN
    IF tag \notin ALLOWED_TAGS THEN ""
    ELSE IF At(s, p + 1) = "/" THEN "</" \o tag \o ">"
    ELSE "<" \o tag \o sanitizeAttributes(Sub(s, m.to, m.gt - 1))
         \o (IF At(s, m.gt - 1) = "/" THEN " /" ELSE "") \o ">"

RECURSIVE CleanTags(_, _)
CleanTagsAt(s, p, q) ==
    IF q = 0 THEN Sub(s, p, Len(s))
    ELSE IF TagAt(s, q).gt /= 0
    THEN Sub(s, p, q - 1) \o CleanTag(s, q, TagAt(s, q)) \o CleanTags(s, TagAt(s, q).gt + 1)
    ELSE Sub(s, p, q) \o CleanTags(s, q + 1)

CleanTags(s, p) == CleanTagsAt(s, p, FirstIn(s, p, Len(s), {"<"}))

sanitizeHtml(html) == CleanTags(RemoveTags(RemovePairs(html, 1), 1), 1)

(***************************************************************************)
(* streamdown.ts: render(markdown, options)                                *)
(***************************************************************************)
\* phases 3 and 4: plugin post-processors, then the sanitizer when enabled
PostProcess(html, o) ==
    IF o.sanitize THEN sanitizeHtml(applyPostProcessors(o.plugins, html))
    ELSE applyPostProcessors(o.plugins, html)

\* the outcome of render given the outcome t of its tokenize call
\* phases 3 and 4, after a token renderer that returned html or threw
Assembled(html, o) ==
    IF html = Aborted THEN [outcome |-> "thrown", html |-> Undefined]
    ELSE [outcome |-> "returned", html |-> PostProcess(html, o)]

RenderOf(t, o) ==
    IF t.outcome = "returned"
    THEN Assembled(renderTokens(t.tokens, o), o)
    ELSE [outcome |-> t.outcome, html |-> Undefined]

render(md, o) == RenderOf(tokenize(md, o), o)

(***************************************************************************)
(* streamdown.ts: StreamdownRenderer.renderIncremental                     *)
(***************************************************************************)
\* the committed (want = TRUE) or the pending (want = FALSE) tokens of
\* allTokens, from index k on
\* the split with every complete token committed, the last one included
RECURSIVE PickComplete(_, _, _)
PickComplete(all, k, want) ==
    IF k > Len(all) THEN <<>>
    ELSE (IF all[k].isComplete = want THEN <<all[k]>> ELSE <<>>)
         \o PickComplete(all, k + 1, want)

RECURSIVE Pick(_, _, _)
Pick(all, k, want) ==
    IF k > Len(all) THEN <<>>
    ELSE (IF (all[k].isComplete /\ k < Len(all)) = want THEN <<all[k]>> ELSE <<>>)
         \o Pick(all, k + 1, want)

\* the comparison without committed.length !== this.completedTokens.length
committedChangedAtIndex(committed, cached) ==
    \E k \in 1..Len(committed) : k > Len(cached) \/ committed[k].raw /= cached[k].raw

committedChanged(committed, cached) ==
    \/ Len(committed) /= Len(cached)
    \/ \E k \in 1..Len(committed) : committed[k].raw /= cached[k].raw

\* the invocations of the token renderer that renderTokens(toks) makes:
\* which array (part) and which index of it
RECURSIVE Invocations(_, _, _)
Invocations(part, toks, k) ==
    IF k > Len(toks) THEN <<>>
    ELSE (IF toks[k].type /= "newline" THEN <<[part |-> part, index |-> k]>> ELSE <<>>)
         \o Invocations(part, toks, k + 1)

\* the checkpoint after a comparison of the lengths alone
CheckpointByLength(committed, cachedTokens, cachedHtml, o) ==
    IF Len(committed) /= Len(cachedTokens)
    THEN [tokens |-> committed, html |-> renderTokens(committed, o),
          log |-> Invocations("committed", committed, 1)]
    ELSE [tokens |-> cachedTokens, html |-> cachedHtml, log |-> <<>>]

\* the checkpoint after the comparison with the cache
Checkpoint(committed, cachedTokens, cachedHtml, o) ==
    IF committedChanged(committed, cachedTokens)
    THEN [tokens |-> committed, html |-> renderTokens(committed, o),
          log |-> Invocations("committed", committed, 1)]
    ELSE [tokens |-> cachedTokens, html |-> cachedHtml, log |-> <<>>]

CursorHtml(o) ==
    IF o.streaming /\ o.cursor /= ""
    THEN "<span class=\"sd-cursor\">" \o o.cursor \o "</span>"
    ELSE ""

\* html = completedHtml; if (pendingHtml) html += (html ? '\n' : '') + pendingHtml
JoinHtml(doneHtml, pendingHtml) ==
    IF pendingHtml /= ""
    THEN doneHtml \o (IF doneHtml /= "" THEN "\n" ELSE "") \o pendingHtml
    ELSE doneHtml

\* renderIncremental with the cursor appended only to HTML that is not empty
IncrementalHtmlIfAny(doneHtml, pendingHtml, o) ==
    IF PostProcess(JoinHtml(doneHtml, pendingHtml), o) = "" THEN ""
    ELSE PostProcess(JoinHtml(doneHtml, pendingHtml), o) \o CursorHtml(o)

IncrementalHtml(doneHtml, pendingHtml, o) ==
    PostProcess(JoinHtml(doneHtml, pendingHtml), o) \o CursorHtml(o)

(***************************************************************************)
(* Inputs of the model: documents of up to MaxLines lines, each line one   *)
(* of the sample lines (one or more per construct of the dialect, with     *)
(* carriage returns, white-space-only lines and alignment rows with and    *)
(* without a pipe), and the option values.                                 *)
(***************************************************************************)
LineSamples ==
    {"", " ", "a", "a|b", "---", "-|-", "- [x] a", "- a\r", "1. a", "1. a\rb",
     "$$", "$$a$$", Fence, "# a", "> a", "> [!TIP] a", "> a|b"}

RECURSIVE DocsOf(_)
DocsOf(n) ==
    IF n = 1 THEN LineSamples
    ELSE {d \o "\n" \o l : d \in DocsOf(n - 1), l \in LineSamples}

Documents == UNION {DocsOf(n) : n \in 1..MaxLines}

\* DEFAULT_OPTIONS with an ASCII cursor; no plugin registered
DefaultOptions ==
    [math |-> TRUE, highlight |-> TRUE, mermaid |-> TRUE, tables |-> TRUE,
     streaming |-> TRUE, cursor |-> "|", gfm |-> TRUE, sanitize |-> TRUE,
     plugins |-> <<>>, onCodeBlock |-> "noop"]

PlainOptions ==
    [DefaultOptions EXCEPT !.math = FALSE, !.tables = FALSE, !.gfm = FALSE]

\* PluginManager.getBlockRules: the block rules of the plugins that have one,
\* in registration order
RECURSIVE getBlockRules(_)
getBlockRules(plugins) ==
    IF plugins = <<>> THEN <<>>
    ELSE (IF Head(plugins).blockRule /= "none" THEN <<Head(plugins).blockRule>> ELSE <<>>)
         \o getBlockRules(Tail(plugins))

\* blockRule.match and blockRule.parse of the sample rule "rule":
\*   { match: line => line.startsWith('#'),
\*     parse: (lines, k) => ({ token: { type: 'hr', raw: lines[k] }, consumed: 1 }) }
BlockRuleMatch(rule, line) == rule = "rule" /\ StartsWith(line, "#")

BlockRuleToken(rule, ls, i0) == BlockToken("hr", Line(ls, i0), TRUE, i0)

\* the first of rules whose match accepts line, "none" when none does
RECURSIVE FirstBlockRule(_, _)
FirstBlockRule(rules, line) ==
    IF rules = <<>> THEN "none"
    ELSE IF BlockRuleMatch(Head(rules), line) THEN Head(rules)
    ELSE FirstBlockRule(Tail(rules), line)

\* a plugin with a block rule only, registered after one without
RulePlugin ==
    [name |-> "rule", renderToken |-> "none", postProcess |-> "none",
     inlineRule |-> "none", blockRule |-> "rule"]

NoRulePlugin ==
    [name |-> "plain", renderToken |-> "none", postProcess |-> "none",
     inlineRule |-> "none", blockRule |-> "none"]

BlockRuleOptions == [DefaultOptions EXCEPT !.plugins = <<NoRulePlugin, RulePlugin>>]

TokenizeOptions == {DefaultOptions, PlainOptions, BlockRuleOptions}

(***************************************************************************)
(* The session before any call (the constructor)                           *)
(***************************************************************************)
NewSession ==
    /\ buffer = ""
    /\ completedTokens = <<>>
    /\ completedHtml = ""
    /\ allTokens = <<>>
    /\ result = Undefined
    /\ status = "ok"
    /\ notified = Undefined
    /\ calls = <<>>
    /\ renderLog = <<>>
    /\ commitLog = <<>>
    /\ listeners = <<>>
    /\ handles = {}
    /\ cancelled = {}
    /\ everCancelled = {}
    /\ delivered = <<>>
    /\ leftOut = {}

(***************************************************************************)
(* tokenize as a machine: one action per branch of the main loop           *)
(***************************************************************************)
TokInit ==
    /\ options \in TokenizeOptions
    /\ markdown \in Documents
    /\ lines = Split(markdown, "\n")
    /\ i = 0
    /\ tokens = <<>>
    /\ starts = <<>>
    /\ pc = "scan"
    /\ NewSession

\* One iteration of the main loop: the branch taken either throws or pushes
\* its token and moves the scan position.  A loop that does not advance is
\* followed until it has pushed more tokens than there are lines.
Advance(st) ==
    /\ Len(tokens) <= Len(lines)
    /\ IF st.threw
       THEN pc' = "thrown" /\ UNCHANGED <<i, tokens, starts>>
       ELSE /\ i' = st.next
            /\ tokens' = Append(tokens, st.tok)
            /\ starts' = Append(starts, i)
            /\ pc' = "scan"
    /\ UNCHANGED <<options, markdown, lines>>
    /\ UNCHANGED sessionVars

Branch(rule) == pc = "scan" /\ i < Len(lines) /\ RuleAt(lines, i, options) = rule

ScanNewline == Branch("newline") /\ Advance(NewlineRule(lines, i))
ScanMath == Branch("math") /\ Advance(MathRule(lines, i))
ScanFence == Branch("fence") /\ Advance(FenceRule(lines, i))
ScanHeading == Branch("heading") /\ Advance(HeadingRule(lines, i))
ScanHr == Branch("hr") /\ Advance(HrRule(lines, i))
ScanQuote == Branch("quote") /\ Advance(QuoteRule(lines, i))
ScanTable == Branch("table") /\ Advance(TableRule(lines, i))
ScanUList == Branch("ulist") /\ Advance(UListRule(lines, i, options))
ScanOList == Branch("olist") /\ Advance(OListRule(lines, i))
ScanParagraph == Branch("paragraph") /\ Advance(ParagraphRule(lines, i))

Return ==
    /\ pc = "scan"
    /\ i >= Len(lines)
    /\ pc' = "returned"
    /\ UNCHANGED <<options, markdown, lines, i, tokens, starts>>
    /\ UNCHANGED sessionVars

TokNext ==
    \/ ScanNewline
    \/ ScanMath
    \/ ScanFence
    \/ ScanHeading
    \/ ScanHr
    \/ ScanQuote
    \/ ScanTable
    \/ ScanUList
    \/ ScanOList
    \/ ScanParagraph
    \/ Return

vars ==
    <<options, markdown, lines, i, tokens, starts, pc, buffer, completedTokens,
      completedHtml, allTokens, result, status, notified, calls, renderLog, commitLog,
      listeners, handles, cancelled, everCancelled, delivered, leftOut>>

SpecTok == TokInit /\ [][TokNext]_vars

(***************************************************************************)
(* The session as a machine: one action per public method.  A call that    *)
(* throws leaves the session as the statements before the throw left it;   *)
(* a call that hangs never returns, so no later call is made.              *)
(***************************************************************************)
\* the chunks a caller pushes
Chunks == {"a", "\n", "-", "|", Fence, "|\n-"}

\* a plugin that declines every token and marks the output, and one whose
\* render override returns the empty string
DeclinePlugin ==
    [name |-> "decline", renderToken |-> "decline", postProcess |-> "mark",
     inlineRule |-> "none", blockRule |-> "none"]
BlankPlugin ==
    [name |-> "blank", renderToken |-> "blank", postProcess |-> "none",
     inlineRule |-> "none", blockRule |-> "none"]

StaticOptions == [DefaultOptions EXCEPT !.streaming = FALSE]
PluginOptions == [DefaultOptions EXCEPT !.plugins = <<DeclinePlugin, BlankPlugin>>]

SessionOptions == {DefaultOptions, StaticOptions, PluginOptions}

Init ==
    /\ options \in SessionOptions
    /\ markdown = ""
    /\ lines = <<>>
    /\ i = 0
    /\ tokens = <<>>
    /\ starts = <<>>
    /\ pc = "idle"
    /\ NewSession

\* notify(html): every registered listener in order, then options.onUpdate
notify(ls, html) ==
    [k \in 1..Len(ls) |-> [to |-> ls[k], html |-> html]]
        \o <<[to |-> "onUpdate", html |-> html]>>

CanCall == status /= "hung" /\ Len(calls) < MaxCalls

Called(op, chunk, end) ==
    /\ calls' = Append(calls, [op |-> op, chunk |-> chunk, status |-> end])
    /\ leftOut' = cancelled

\* commitLog after a push that tokenized the buffer into all: an index keeps
\* the token first committed there
CommitLogAfter(log, all, o) ==
    [j \in 1..(IF Len(log) > Len(all) - 1 THEN Len(log) ELSE Len(all) - 1) |->
        IF j <= Len(log) /\ log[j].committed THEN log[j]
        ELSE IF j < Len(all) /\ all[j].isComplete
        THEN [committed |-> TRUE, type |-> all[j].type, raw |-> all[j].raw,
              html |-> Fragment(all[j], o)]
        ELSE [committed |-> FALSE, type |-> "", raw |-> "", html |-> ""]]

\* renderIncremental returned: the checkpoint cp is stored and the HTML built
Returned(all, cp, pendingHtml) ==
    /\ completedTokens' = cp.tokens
    /\ completedHtml' = cp.html
    /\ allTokens' = all
    /\ result' = IncrementalHtml(cp.html, pendingHtml, options)
    /\ renderLog' = cp.log \o Invocations("pending", Pick(all, 1, FALSE), 1)
    /\ status' = "ok"

\* tokenize threw or hung inside the call
Failed(end) ==
    /\ status' = end
    /\ result' = Undefined
    /\ renderLog' = <<>>
    /\ delivered' = <<>>
    /\ UNCHANGED <<completedTokens, completedHtml, allTokens, notified, commitLog>>

renderIncremental(t) ==
    Returned(t.tokens,
             Checkpoint(Pick(t.tokens, 1, TRUE), completedTokens, completedHtml, options),
             renderTokens(Pick(t.tokens, 1, FALSE), options))

EndOf(t) == IF t.outcome = "thrown" THEN "thrown" ELSE IF t.outcome = "hung" THEN "hung" ELSE "ok"

\* push with this.buffer = chunk in place of this.buffer += chunk
PushTokenizedAssign(chunk, t) ==
    /\ buffer' = chunk
    /\ Called("push", chunk, EndOf(t))
    /\ IF t.outcome = "returned"
       THEN /\ renderIncremental(t)
            /\ notified' = result'
            /\ delivered' = notify(listeners, result')
            /\ commitLog' = CommitLogAfter(commitLog, t.tokens, options)
       ELSE Failed(EndOf(t))
    /\ UNCHANGED <<options, markdown, lines, i, tokens, starts, pc>>
    /\ UNCHANGED listenerVars

PushTokenized(chunk, t) ==
    /\ buffer' = buffer \o chunk
    /\ Called("push", chunk, EndOf(t))
    /\ IF t.outcome = "returned"
       THEN /\ renderIncremental(t)
            /\ notified' = result'
            /\ delivered' = notify(listeners, result')
            /\ commitLog' = CommitLogAfter(commitLog, t.tokens, options)
       ELSE Failed(EndOf(t))
    /\ UNCHANGED <<options, markdown, lines, i, tokens, starts, pc>>
    /\ UNCHANGED listenerVars

Push(chunk) == CanCall /\ PushTokenized(chunk, tokenize(buffer \o chunk, options))

RenderTokenized(t) ==
    /\ Called("render", "", EndOf(t))
    /\ IF t.outcome = "returned"
       THEN renderIncremental(t) /\ delivered' = <<>> /\ UNCHANGED <<notified, commitLog>>
       ELSE Failed(EndOf(t))
    /\ UNCHANGED <<options, markdown, lines, i, tokens, starts, pc, buffer>>
    /\ UNCHANGED listenerVars

Render == CanCall /\ RenderTokenized(tokenize(buffer, options))

FinishRendered(r) ==
    /\ Called("finish", "", EndOf(r))
    /\ IF r.outcome = "returned"
       THEN /\ result' = r.html
            /\ notified' = r.html
            /\ delivered' = notify(listeners, r.html)
            /\ completedTokens' = <<>>
            /\ completedHtml' = ""
            /\ status' = "ok"
            /\ renderLog' = <<>>
            /\ UNCHANGED <<allTokens, commitLog>>
       ELSE Failed(EndOf(r))
    /\ UNCHANGED <<options, markdown, lines, i, tokens, starts, pc, buffer>>
    /\ UNCHANGED listenerVars

Finish == CanCall /\ FinishRendered(render(buffer, [options EXCEPT !.streaming = FALSE]))

\* reset that clears the buffer and leaves the checkpoint
ResetKeepsCheckpoint ==
    /\ CanCall
    /\ Called("reset", "", "ok")
    /\ buffer' = ""
    /\ UNCHANGED <<completedTokens, completedHtml>>
    /\ notified' = ""
    /\ delivered' = notify(listeners, "")
    /\ UNCHANGED listenerVars
    /\ result' = Undefined
    /\ status' = "ok"
    /\ allTokens' = <<>>
    /\ renderLog' = <<>>
    /\ commitLog' = <<>>
    /\ UNCHANGED <<options, markdown, lines, i, tokens, starts, pc>>

Reset ==
    /\ CanCall
    /\ Called("reset", "", "ok")
    /\ buffer' = ""
    /\ completedTokens' = <<>>
    /\ completedHtml' = ""
    /\ notified' = ""
    /\ delivered' = notify(listeners, "")
    /\ UNCHANGED listenerVars
    /\ result' = Undefined
    /\ status' = "ok"
    /\ allTokens' = <<>>
    /\ renderLog' = <<>>
    /\ commitLog' = <<>>
    /\ UNCHANGED <<options, markdown, lines, i, tokens, starts, pc>>

Next ==
    \/ \E chunk \in Chunks : Push(chunk)
    \/ Render
    \/ Finish
    \/ Reset

Spec == Init /\ [][Next]_vars

(***************************************************************************)
(* push as a function of the session fields, and the session a sequence of *)
(* pushes leaves when made on a newly constructed StreamdownRenderer.      *)
(***************************************************************************)
FreshSession ==
    [buffer |-> "", completedTokens |-> <<>>, completedHtml |-> "",
     result |-> Undefined, status |-> "ok"]

PushedWith(sess, buf, cp, pendingHtml, o) ==
    [buffer |-> buf, completedTokens |-> cp.tokens, completedHtml |-> cp.html,
     result |-> IncrementalHtml(cp.html, pendingHtml, o), status |-> "ok"]

PushedAt(sess, buf, t, o) ==
    IF t.outcome = "returned"
    THEN PushedWith(sess, buf,
                    Checkpoint(Pick(t.tokens, 1, TRUE), sess.completedTokens,
                               sess.completedHtml, o),
                    renderTokens(Pick(t.tokens, 1, FALSE), o), o)
    ELSE [sess EXCEPT !.buffer = buf, !.result = Undefined, !.status = EndOf(t)]

Pushed(sess, chunk, o) == PushedAt(sess, sess.buffer \o chunk, tokenize(sess.buffer \o chunk, o), o)

RECURSIVE FreshPushes(_, _)
FreshPushes(chunks, o) ==
    IF Len(chunks) = 0 THEN FreshSession
    ELSE Pushed(FreshPushes(SubSeq(chunks, 1, Len(chunks) - 1), o), chunks[Len(chunks)], o)

(***************************************************************************)
(* The session fed with inline math: chunks that open and close `$` spans  *)
(* in a paragraph, a heading, a table cell and a callout title.            *)
(***************************************************************************)
MathChunks == {"$a", "$", "\n", "# ", "|$a$|\n|-|", "> [!TIP] $a$"}

MathOffOptions == [DefaultOptions EXCEPT !.math = FALSE]

InitMath ==
    /\ options \in {DefaultOptions, MathOffOptions}
    /\ markdown = ""
    /\ lines = <<>>
    /\ i = 0
    /\ tokens = <<>>
    /\ starts = <<>>
    /\ pc = "idle"
    /\ NewSession

NextMath ==
    \/ \E chunk \in MathChunks : Push(chunk)
    \/ Finish

SpecMath == InitMath /\ [][NextMath]_vars

(***************************************************************************)
(* processInline applied to one line of text that holds a link: the text   *)
(* before it, its target and the text after it drawn from samples with     *)
(* the delimiters of the later steps.                                      *)
(***************************************************************************)
LinkTargets ==
    {"javascript:a", " JavaScript:a", "vbscript:a", "DATA:a", "javascript :a",
     "@javascript:a", "_javascript:a_", "**javascript:a", "^javascript:a^", "http://a"}

AroundLink == {"", "**", "_", "~~", "^", "==", "@"}

InlineTexts ==
    {pre \o "[t](" \o target \o ")" \o post :
        pre \in AroundLink, target \in LinkTargets, post \in AroundLink}

\* a plugin that registers the inline rule "strip"
StripPlugin ==
    [name |-> "strip", renderToken |-> "none", postProcess |-> "none",
     inlineRule |-> "strip", blockRule |-> "none"]

StaticStripOptions == [StaticOptions EXCEPT !.plugins = <<StripPlugin>>]

InitInline ==
    /\ options \in {StaticOptions, StaticStripOptions}
    /\ markdown \in InlineTexts
    /\ lines = <<>>
    /\ i = 0
    /\ tokens = <<>>
    /\ starts = <<>>
    /\ pc = "inline"
    /\ NewSession

Format ==
    /\ pc = "inline"
    /\ result' = processInline(markdown, options)
    /\ pc' = "formatted"
    /\ UNCHANGED <<options, markdown, lines, i, tokens, starts>>
    /\ UNCHANGED <<buffer, completedTokens, completedHtml, allTokens, status, notified,
                   calls, renderLog, commitLog, listeners, handles, cancelled,
                   everCancelled, delivered, leftOut>>

SpecInline == InitInline /\ [][Format]_vars

(***************************************************************************)
(* sanitizeHtml applied to a string made of up to MaxPieces pieces: text,  *)
(* allowed and disallowed tags, and halves of tags.                        *)
(***************************************************************************)
HtmlPieces == {"<", "a", "<b>", "<foo>", "<script>", "</script>", "div onclick=x>"}

RECURSIVE HtmlOf(_)
HtmlOf(n) ==
    IF n = 0 THEN {""}
    ELSE {piece \o rest : piece \in HtmlPieces, rest \in HtmlOf(n - 1)}

HtmlInputs == UNION {HtmlOf(n) : n \in 0..MaxPieces}

InitSanitize ==
    /\ options = DefaultOptions
    /\ markdown \in HtmlInputs
    /\ lines = <<>>
    /\ i = 0
    /\ tokens = <<>>
    /\ starts = <<>>
    /\ pc = "sanitize"
    /\ NewSession

Sanitize ==
    /\ pc = "sanitize"
    /\ result' = sanitizeHtml(markdown)
    /\ pc' = "sanitized"
    /\ UNCHANGED <<options, markdown, lines, i, tokens, starts>>
    /\ UNCHANGED <<buffer, completedTokens, completedHtml, allTokens, status, notified,
                   calls, renderLog, commitLog, listeners, handles, cancelled,
                   everCancelled, delivered, leftOut>>

SpecSanitize == InitSanitize /\ [][Sanitize]_vars

(***************************************************************************)
(* renderTokens applied to the tokens of a document with code and math     *)
(* blocks, with an onCodeBlock callback that returns or throws.            *)
(***************************************************************************)
RenderLines == {"", "a", "# a", "$$", "$$a$$", Fence, Fence \o "js", Fence \o "mermaid"}

RECURSIVE RenderDocsOf(_)
RenderDocsOf(n) ==
    IF n = 1 THEN RenderLines
    ELSE {doc \o "\n" \o l : doc \in RenderDocsOf(n - 1), l \in RenderLines}

RenderDocs == UNION {RenderDocsOf(n) : n \in 1..MaxLines}

ThrowingCallbackOptions == [StaticOptions EXCEPT !.onCodeBlock = "throws"]

InitRender ==
    /\ options \in {StaticOptions, ThrowingCallbackOptions}
    /\ markdown \in RenderDocs
    /\ lines = <<>>
    /\ i = 0
    /\ tokens = <<>>
    /\ starts = <<>>
    /\ pc = "render"
    /\ NewSession

\* renderTokens(tokenize(markdown, options), options) returned or threw
RenderedAll(html) ==
    /\ pc = "render"
    /\ tokens' = tokenize(markdown, options).tokens
    /\ result' = IF html = Aborted THEN Undefined ELSE html
    /\ status' = IF html = Aborted THEN "thrown" ELSE "ok"
    /\ pc' = "rendered"
    /\ UNCHANGED <<options, markdown, lines, i, starts>>
    /\ UNCHANGED <<buffer, completedTokens, completedHtml, allTokens, notified,
                   calls, renderLog, commitLog, listeners, handles, cancelled,
                   everCancelled, delivered, leftOut>>

RenderAll == RenderedAll(renderTokens(tokenize(markdown, options).tokens, options))

SpecRender == InitRender /\ [][RenderAll]_vars

(***************************************************************************)
(* The session with subscribers: onUpdate(listener) and the unsubscribe    *)
(* functions it returns, next to the calls that notify (push, finish and   *)
(* reset).                                                                 *)
(***************************************************************************)
\* the listener functions a caller subscribes
Listeners == {"f", "g"}

\* the chunks pushed: one that renders and one on which tokenize throws
NotifyChunks == {"a", "|\n-"}

\* ls.filter(l => l !== listener)
RECURSIVE Without(_, _)
Without(ls, listener) ==
    IF Len(ls) = 0 THEN <<>>
    ELSE (IF ls[1] /= listener THEN <<ls[1]>> ELSE <<>>) \o Without(Tail(ls), listener)

\* onUpdate(listener): the listener is appended and an unsubscribe function
\* that holds it is returned
onUpdate(listener) ==
    /\ status /= "hung"
    /\ Len(listeners) < MaxListeners
    /\ listeners' = Append(listeners, listener)
    /\ handles' = handles \cup {listener}
    /\ cancelled' = cancelled \ {listener}
    /\ UNCHANGED <<everCancelled, delivered, leftOut>>
    /\ UNCHANGED <<options, markdown, lines, i, tokens, starts, pc>>
    /\ UNCHANGED <<buffer, completedTokens, completedHtml, allTokens, result, status,
                   notified, calls, renderLog, commitLog>>

\* an unsubscribe function that computes the filtered list and drops it
UnsubscribeDropped(listener) ==
    /\ status /= "hung"
    /\ listener \in handles
    /\ listeners' = listeners
    /\ cancelled' = cancelled \cup {listener}
    /\ everCancelled' = everCancelled \cup {listener}
    /\ UNCHANGED <<handles, delivered, leftOut>>
    /\ UNCHANGED <<options, markdown, lines, i, tokens, starts, pc>>
    /\ UNCHANGED <<buffer, completedTokens, completedHtml, allTokens, result, status,
                   notified, calls, renderLog, commitLog>>

\* a call of an unsubscribe function returned for listener
Unsubscribe(listener) ==
    /\ status /= "hung"
    /\ listener \in handles
    /\ listeners' = Without(listeners, listener)
    /\ cancelled' = cancelled \cup {listener}
    /\ everCancelled' = everCancelled \cup {listener}
    /\ UNCHANGED <<handles, delivered, leftOut>>
    /\ UNCHANGED <<options, markdown, lines, i, tokens, starts, pc>>
    /\ UNCHANGED <<buffer, completedTokens, completedHtml, allTokens, result, status,
                   notified, calls, renderLog, commitLog>>

InitNotify ==
    /\ options = DefaultOptions
    /\ markdown = ""
    /\ lines = <<>>
    /\ i = 0
    /\ tokens = <<>>
    /\ starts = <<>>
    /\ pc = "idle"
    /\ NewSession

NextNotify ==
    \/ \E chunk \in NotifyChunks : Push(chunk)
    \/ Finish
    \/ Reset
    \/ \E listener \in Listeners : onUpdate(listener)
    \/ \E listener \in Listeners : Unsubscribe(listener)

SpecNotify == InitNotify /\ [][NextNotify]_vars

(***************************************************************************)
(* The session fed with a fenced code block that names a language: the     *)
(* calls of options.onCodeBlock that a push makes.                         *)
(***************************************************************************)
CodeChunks == {Fence \o "js\n", Fence \o "\n", "a", "\n", Fence}

\* renderCodeBlock reaches options.onCodeBlock(lang, code) for token: the
\* block is not drawn as a diagram and both its language and code are set
FiresOnCodeBlock(token, o) ==
    /\ token.type = "code_block"
    /\ ~(o.mermaid /\ ToLowerCase(token.lang) = "mermaid")
    /\ token.lang /= ""
    /\ token.text /= ""

\* the token of an invocation of the token renderer made by the last call
Invoked(inv) ==
    IF inv.part = "committed" THEN completedTokens[inv.index]
    ELSE Pick(allTokens, 1, FALSE)[inv.index]

InitCode ==
    /\ options = DefaultOptions
    /\ markdown = ""
    /\ lines = <<>>
    /\ i = 0
    /\ tokens = <<>>
    /\ starts = <<>>
    /\ pc = "idle"
    /\ NewSession

NextCode ==
    \/ \E chunk \in CodeChunks : Push(chunk)
    \/ Finish

SpecCode == InitCode /\ [][NextCode]_vars

(***************************************************************************)
(* tokenize with a feature switched off, on documents whose lines would    *)
(* start the construct of that feature.                                    *)
(***************************************************************************)
OffLines ==
    {"", "a", "a|b", "-|-", "---", "$$", "$$a$$", "$$|a|$$", Fence, "# a", "> a",
     "- a", "1. a"}

RECURSIVE OffDocsOf(_)
OffDocsOf(n) ==
    IF n = 1 THEN OffLines
    ELSE {doc \o "\n" \o l : doc \in OffDocsOf(n - 1), l \in OffLines}

OffDocs == UNION {OffDocsOf(n) : n \in 1..MaxLines}

TablesOffOptions == [DefaultOptions EXCEPT !.tables = FALSE]

OffOptions == {TablesOffOptions, MathOffOptions, PlainOptions}

InitOff ==
    /\ options \in OffOptions
    /\ markdown \in OffDocs
    /\ lines = Split(markdown, "\n")
    /\ i = 0
    /\ tokens = <<>>
    /\ starts = <<>>
    /\ pc = "scan"
    /\ NewSession

SpecOff == InitOff /\ [][TokNext]_vars

(***************************************************************************)
(* The session fed by pushes alone with chunks that build tokens whose raw *)
(* span leaves out part of the source: list items with markers, indent and *)
(* task boxes, a fenced block with a language, a table, a callout.         *)
(***************************************************************************)
CacheChunks ==
    {"- a\n", "- [x] a\n", " - a\n", "1. a\n", Fence \o "js\na\n" \o Fence \o "\n",
     "a|b\n", "> [!TIP] a\n", "-", " ", "|-\n", "\n", "a", "[x] "}

InitCache ==
    /\ options = DefaultOptions
    /\ markdown = ""
    /\ lines = <<>>
    /\ i = 0
    /\ tokens = <<>>
    /\ starts = <<>>
    /\ pc = "idle"
    /\ NewSession

NextCache == \E chunk \in CacheChunks : Push(chunk)

SpecCache == InitCache /\ [][NextCache]_vars

(***************************************************************************)
(* Properties                                                              *)
(***************************************************************************)
LastCall == IF Len(calls) = 0 THEN "new" ELSE calls[Len(calls)].op

\* the last call was a push that returned
PushReturned == LastCall = "push" /\ status = "ok"

\* C1. Checkpoint equivalence: on a session that received push(b[0:k]), then
\* push(b[k:]), then finish(), neither push failed and finish returned the
\* string render(b, {...o, streaming: false}) returns.
C1_CheckpointEquivalence ==
    (/\ Len(calls) = 3
     /\ calls[1].op = "push"
     /\ calls[2].op = "push"
     /\ calls[3].op = "finish")
    => /\ calls[1].status = "ok"
       /\ calls[2].status = "ok"
       /\ calls[3].status = "ok"
       /\ result = render(buffer, [options EXCEPT !.streaming = FALSE]).html

\* C2. Incremental output equals full output: the HTML a push returns is the
\* HTML of render(getBuffer(), sameOptions) followed by the cursor element
\* when streaming is on and the cursor is not empty, whatever the fragments.
C2_IncrementalEqualsFull ==
    PushReturned
    => /\ render(buffer, options).outcome = "returned"
       /\ result = render(buffer, options).html \o CursorHtml(options)

\* C3. Completeness invariant: in the sequence tokenize returns, every token
\* but the last is complete.
C3_OnlyLastIncomplete ==
    pc = "returned" => \A k \in 1..(Len(tokens) - 1) : tokens[k].isComplete

\* tokenize returned two or more tokens and the last one is not complete
C3_Witness ==
    /\ pc = "returned"
    /\ Len(tokens) >= 2
    /\ ~tokens[Len(tokens)].isComplete

\* C4. Monotonic committed cache: from one push to the next push on the same
\* session the number of committed tokens held does not decrease.
C4_MonotonicCommitted ==
    [][(PushReturned /\ PushReturned' /\ Len(calls') = Len(calls) + 1)
        => Len(completedTokens') >= Len(completedTokens)]_vars

\* C5. Committed tokens are immutable: a token committed at index j after
\* some push is, after every later push of the session, still the token at
\* index j of the tokenized buffer, with the same type, raw and HTML.
C5_CommittedImmutable ==
    PushReturned
    => \A j \in 1..Len(commitLog) :
           commitLog[j].committed
           => /\ j <= Len(allTokens)
              /\ allTokens[j].type = commitLog[j].type
              /\ allTokens[j].raw = commitLog[j].raw
              /\ Fragment(allTokens[j], options) = commitLog[j].html

\* C6. Bounded re-rendering: a push that follows a push invokes the token
\* renderer on at most one newly committed token plus the pending token, and
\* on no token that was committed after the previous push and is unchanged.
C6_BoundedRerender ==
    [][(PushReturned /\ PushReturned' /\ Len(calls') = Len(calls) + 1)
        => /\ Len(renderLog') <= 2
           /\ \A n \in 1..Len(renderLog') :
                  ~(/\ renderLog'[n].part = "committed"
                    /\ renderLog'[n].index <= Len(completedTokens)
                    /\ completedTokens'[renderLog'[n].index]
                           = completedTokens[renderLog'[n].index])]_vars

\* C7. Totality: tokenize does not throw, whatever the buffer (so render,
\* push and finish, which call it, return a string).
C7_TokenizeNeverThrows == pc /= "thrown"

\* C8. Termination: every iteration of the main scan loop of tokenize moves
\* the scan position forward by at least one line.
C8_EveryIterationAdvances == [][(pc = "scan" /\ pc' = "scan") => i' > i]_vars

\* C9. Every line is consumed by exactly one token: in the sequence tokenize
\* returns, the first token starts at line 0, each token ends at or after
\* the line it starts at, the next token starts on the line after, and the
\* last token ends at the last line.
C9_LinesPartitioned ==
    pc = "returned"
    => /\ Len(tokens) >= 1
       /\ Len(starts) = Len(tokens)
       /\ starts[1] = 0
       /\ \A k \in 1..Len(tokens) : starts[k] <= tokens[k].endOffset
       /\ \A k \in 1..(Len(tokens) - 1) : starts[k + 1] = tokens[k].endOffset + 1
       /\ tokens[Len(tokens)].endOffset = Len(lines) - 1

\* tokenize returned several tokens, one of which spans several lines
C9_Witness ==
    /\ pc = "returned"
    /\ Len(tokens) >= 2
    /\ \E k \in 1..Len(tokens) : starts[k] < tokens[k].endOffset

\* the raw fields of the tokens that are not newline tokens, concatenated
RECURSIVE ConcatRaw(_)
ConcatRaw(toks) ==
    IF Len(toks) = 0 THEN ""
    ELSE (IF toks[1].type = "newline" THEN "" ELSE toks[1].raw) \o ConcatRaw(Tail(toks))

\* s without its white space (line breaks included)
RECURSIVE Squeeze(_)
Squeeze(s) ==
    IF Len(s) = 0 THEN ""
    ELSE (IF IsSpace(Head(s)) THEN "" ELSE Head(s)) \o Squeeze(Tail(s))

\* C10. Raw-span round trip: the raw fields of the returned tokens,
\* concatenated without the newline tokens, give back the buffer (compared
\* up to the white space that separates the tokens).
C10_RawRoundTrip ==
    pc = "returned" => Squeeze(ConcatRaw(tokens)) = Squeeze(markdown)

\* the last call was made by this step
CallMade == Len(calls') = Len(calls) + 1

\* C11. Notification delivery: every call of push, finish or reset notifies
\* every registration held at the time of the call once, in subscription
\* order, and then options.onUpdate; the string notified is the one the call
\* returns for push and finish and the empty string for reset.
C11_NotificationDelivery ==
    [][(CallMade /\ LastCall' \in {"push", "finish", "reset"})
        => delivered' = notify(listeners, IF LastCall' = "reset" THEN "" ELSE result')]_vars

\* the listeners notified by the last call
Notified == {delivered[k].to : k \in 1..Len(delivered)}

\* C12 as stated. Unsubscribe: a listener whose unsubscribe function has
\* been called is notified by no later push, finish or reset.
C12_UnsubscribedForGood ==
    [][CallMade => \A listener \in everCancelled : listener \notin Notified']_vars

\* C12. Unsubscribe: a listener whose unsubscribe function has been called,
\* and that has not been subscribed again since, is notified by no later
\* push, finish or reset.
C12_UnsubscribedNotNotified ==
    [][CallMade => \A listener \in cancelled : listener \notin Notified']_vars

\* a push made after an unsubscribe notified the listener that was left
C12_Witness ==
    /\ PushReturned
    /\ leftOut /= {}
    /\ Len(delivered) >= 2

\* the chunks of the pushes made since construction or the last reset
RECURSIVE PushedSince(_)
PushedSince(cs) ==
    IF Len(cs) = 0 \/ cs[Len(cs)].op = "reset" THEN ""
    ELSE PushedSince(SubSeq(cs, 1, Len(cs) - 1))
            \o (IF cs[Len(cs)].op = "push" THEN cs[Len(cs)].chunk ELSE "")

RECURSIVE LastResetAt(_)
LastResetAt(cs) ==
    IF Len(cs) = 0 THEN 0
    ELSE IF cs[Len(cs)].op = "reset" THEN Len(cs)
    ELSE LastResetAt(SubSeq(cs, 1, Len(cs) - 1))

\* the chunks of the calls after the k-th
ChunksFrom(cs, k) == [j \in 1..(Len(cs) - k) |-> cs[k + j].chunk]

\* the session is the session sess
SessionIs(sess) ==
    /\ buffer = sess.buffer
    /\ completedTokens = sess.completedTokens
    /\ completedHtml = sess.completedHtml
    /\ result = sess.result
    /\ status = sess.status

\* C14. reset() returns the session to its initial state: the buffer and
\* the checkpoint are empty after it, and the pushes that follow leave the
\* buffer, the checkpoint and the returned HTML they leave on a newly
\* constructed session with the same options.
C14_ResetIsFresh ==
    (/\ LastResetAt(calls) > 0
     /\ \A k \in (LastResetAt(calls) + 1)..Len(calls) : calls[k].op = "push")
    => SessionIs(FreshPushes(ChunksFrom(calls, LastResetAt(calls)), options))

\* a push that returned, after a reset of a session with a checkpoint
C14_Witness ==
    /\ Len(calls) = 3
    /\ calls[1].op = "push" /\ calls[1].chunk = "\n"
    /\ calls[2].op = "reset"
    /\ calls[3].op = "push" /\ status = "ok"
    /\ result /= CursorHtml(options)

\* the opening tag of the cursor marker element, and the element
CursorOpen == "<span class=\"sd-cursor\">"
CursorMarker == CursorOpen \o options.cursor \o "</span>"

\* the HTML of the last renderIncremental before the cursor is appended
IncrementalBody ==
    PostProcess(JoinHtml(completedHtml, renderTokens(Pick(allTokens, 1, FALSE), options)),
                options)

\* C15. Cursor marker: the HTML a push returns on a session with streaming
\* enabled and a cursor that is not empty is the post-processed and
\* sanitized HTML followed by one cursor marker element; the HTML finish()
\* returns does not end with a cursor marker element.
C15_CursorMarker ==
    /\ (PushReturned /\ options.streaming /\ options.cursor /= "")
       => /\ EndsWith(result, CursorMarker)
          /\ result = IncrementalBody \o CursorMarker
          /\ ~EndsWith(IncrementalBody, CursorMarker)
    /\ (LastCall = "finish" /\ status = "ok") => ~EndsWith(result, CursorMarker)

\* a push on a streaming session returned the marker after some HTML
C15_Witness ==
    /\ PushReturned
    /\ options.streaming
    /\ Len(result) > Len(CursorMarker)

\* the opening tag renderInlineMath emits
InlineMathOpen == "<math xmlns=\"http://www.w3.org/1998/Math/MathML\">"

\* the number of places from p on at which d stands in s
RECURSIVE CountOf(_, _, _)
CountOfAt(s, q, d) == IF q = 0 THEN 0 ELSE 1 + CountOf(s, q + Len(d), d)

CountOf(s, p, d) == CountOfAt(s, FirstDelim(s, p, Len(s), d, FALSE), d)

\* the number of inline math spans `$...$` of s from p on, each on one line
RECURSIVE SpansIn(_, _)
SpansInAt(s, q) ==
    IF q = 0 THEN 0
    ELSE IF SpanClose(s, q, "$", "$", TRUE) /= 0
    THEN 1 + SpansIn(s, SpanClose(s, q, "$", "$", TRUE) + 1)
    ELSE SpansIn(s, q + 1)

SpansIn(s, p) == SpansInAt(s, FirstDelim(s, p, Len(s), "$", TRUE))

\* the inline math spans of the source text of a token outside code and
\* display math
SpansOfToken(tok) ==
    IF tok.type \in {"code_block", "math_block", "newline", "hr"} THEN 0
    ELSE SpansIn(tok.raw, 1)

\* the inline math spans of the text of a token that the inline formatter
\* is given: not the cells of a table, not the title of a callout
SpansFormatted(tok) ==
    IF tok.type \in {"heading", "paragraph", "blockquote", "list"} THEN SpansIn(tok.raw, 1)
    ELSE IF tok.type = "callout" THEN SpansIn(tok.body, 1)
    ELSE 0

RECURSIVE SpansOfTokens(_)
SpansOfTokens(toks) ==
    IF Len(toks) = 0 THEN 0 ELSE SpansOfToken(toks[1]) + SpansOfTokens(Tail(toks))

RECURSIVE SpansFormattedOf(_)
SpansFormattedOf(toks) ==
    IF Len(toks) = 0 THEN 0 ELSE SpansFormatted(toks[1]) + SpansFormattedOf(Tail(toks))

\* no push of a streaming session returns an inline math element
NoMathWhileStreaming ==
    (PushReturned /\ options.streaming) => CountOf(result, 1, InlineMathOpen) = 0

FinishReturned == LastCall = "finish" /\ status = "ok"

TargetOf(text) ==
    Sub(text, FirstDelim(text, 1, Len(text), "[t](", FALSE) + 4,
        RunEnd(text, FirstDelim(text, 1, Len(text), "[t](", FALSE) + 4, {")"}) - 1)

\* no href attribute of s from p on has a value that starts with a
\* dangerous protocol
RECURSIVE HrefsSafe(_, _)
HrefsSafeAt(s, q) ==
    \/ q = 0
    \/ /\ ~DANGEROUS_PROTOCOL(SliceFrom(s, q + 5))
       /\ HrefsSafe(s, q + 6)

HrefsSafe(s, p) == HrefsSafeAt(s, FirstDelim(s, p, Len(s), "href=\"", FALSE))

\* the anchor emitted for a link with a dangerous target has the href '#'
DangerousTargetNeutral ==
    (pc = "formatted" /\ DANGEROUS_PROTOCOL(TargetOf(markdown)))
    => CountOf(result, 1, "<a href=\"#\" class=\"sd-link\"") = 1

\* C17 as stated. Protocol rejection: the anchor emitted for a link whose
\* target begins with javascript:, vbscript: or data: has the href '#', and
\* after the later inline steps, registered inline rules included, no href
\* starts with such a protocol.
C17_NoStepRestoresProtocol ==
    /\ DangerousTargetNeutral
    /\ pc = "formatted" => HrefsSafe(result, 1)

\* C17. Protocol rejection: the anchor emitted for a link whose target
\* begins with javascript:, vbscript: or data: has the href '#', and after
\* the later built-in inline steps (emphasis, strikethrough, superscript,
\* highlight) no href starts with such a protocol; a registered inline
\* rule can produce one.
C17_BuiltInStepsKeepHref ==
    /\ DangerousTargetNeutral
    /\ (pc = "formatted" /\ options.plugins = <<>>) => HrefsSafe(result, 1)

\* a link with a dangerous target, in mixed case after a space and between
\* emphasis delimiters, has been formatted
C17_Witness ==
    /\ pc = "formatted"
    /\ markdown = "**[t]( JavaScript:a)**"
    /\ options.plugins = <<>>
    /\ HrefsSafe(result, 1)

\* C18. Idempotent sanitize: sanitizeHtml(sanitizeHtml(x)) = sanitizeHtml(x)
\* for every string x, also when the removal of a disallowed tag joins the
\* text around it into a new tag.
C18_SanitizeIdempotent == pc = "sanitized" => sanitizeHtml(result) = result

\* C19. Failure containment: no invocation made while a code or math token
\* is rendered, the onCodeBlock callback included, aborts renderTokens: it
\* returns the HTML of the document.
C19_RenderTokensReturns == pc = "rendered" => status = "ok"

\* C20. Block-rule precedence: at every scan position where a registered
\* block rule accepts the line, the token pushed for that position is the
\* one the first such rule (in registration order) parses, not a built-in one.
C20_BlockRulesFirst ==
    \A k \in 1..Len(tokens) :
        FirstBlockRule(getBlockRules(options.plugins), Line(lines, starts[k])) /= "none"
            => /\ tokens[k].type = BlockRuleToken("rule", lines, starts[k]).type
               /\ tokens[k].raw = BlockRuleToken("rule", lines, starts[k]).raw

\* C21. onCodeBlock fires on completion only: every call of the onCodeBlock
\* callback that a push makes is for a code block that is complete (its
\* closing fence has been seen), never for an unterminated one.
C21_CallbackOnCompleteOnly ==
    PushReturned =>
        \A k \in 1..Len(renderLog) :
            FiresOnCodeBlock(Invoked(renderLog[k]), options)
                => Invoked(renderLog[k]).isComplete

\* the line at scan position k would start the construct of a feature that
\* options switches off
MathSwitchedOff(k) ==
    ~options.math /\ IsMathStart(TrimEnd(Line(lines, k)), DefaultOptions)

TableSwitchedOff(k) == ~options.tables /\ IsTableStart(lines, k, DefaultOptions)

\* C22. Disabled features fall through: with tables=false no table token is
\* emitted and with math=false no math_block token; a line that would have
\* started the construct is tokenized by the next applicable rule, and that
\* raises no error.
C22_DisabledFallThrough ==
    /\ \A k \in 1..Len(tokens) :
        /\ ~options.tables => tokens[k].type /= "table"
        /\ ~options.math => tokens[k].type /= "math_block"
    /\ pc = "thrown" => ~MathSwitchedOff(i) /\ ~TableSwitchedOff(i)

\* no line after line k of the buffer starts with the delimiter
NoCloseAfter(k, delimiter) ==
    \A j \in (k + 1)..(Len(lines) - 1) : ~StartsWith(TrimEnd(Line(lines, j)), delimiter)

\* token k is a fenced code block or a multi-line math block whose closing
\* delimiter line does not occur before the end of the buffer
Unterminated(k) ==
    \/ tokens[k].type = "code_block" /\ NoCloseAfter(starts[k], Fence)
    \/ /\ tokens[k].type = "math_block"
       /\ ~IsSingleLineMath(TrimEnd(Line(lines, starts[k])))
       /\ NoCloseAfter(starts[k], "$$")

\* C23. A token is incomplete exactly when it is a fenced code block or a
\* multi-line math block without a closing delimiter line before the end of
\* the buffer; such a token ends at the last line of the buffer, and every
\* other token is complete.
C23_IncompleteIffUnterminated ==
    \A k \in 1..Len(tokens) :
        /\ ~tokens[k].isComplete <=> Unterminated(k)
        /\ ~tokens[k].isComplete => tokens[k].endOffset = Len(lines) - 1

\* tokenize returned an unterminated block that absorbed the lines after its
\* opening line, after a closed block
C23_Witness ==
    /\ pc = "returned"
    /\ Len(tokens) >= 2
    /\ tokens[1].type \in {"code_block", "math_block"}
    /\ tokens[1].isComplete
    /\ ~tokens[Len(tokens)].isComplete
    /\ tokens[Len(tokens)].endOffset > starts[Len(tokens)]

\* C24. Committed/pending split: after every push the pending tokens are the
\* last token of the tokenized buffer alone and the committed ones are all
\* earlier tokens in order, each of them complete; the committed tokens the
\* session holds have their raw spans.
C24_CommittedPendingSplit ==
    PushReturned
    => /\ Pick(allTokens, 1, FALSE) = <<allTokens[Len(allTokens)]>>
       /\ Pick(allTokens, 1, TRUE) = SubSeq(allTokens, 1, Len(allTokens) - 1)
       /\ \A j \in 1..(Len(allTokens) - 1) : allTokens[j].isComplete
       /\ Len(completedTokens) = Len(allTokens) - 1
       /\ \A j \in 1..Len(completedTokens) : completedTokens[j].raw = allTokens[j].raw

\* a push returned with two committed tokens and a last token that is
\* complete and pending all the same
C24_Witness ==
    /\ PushReturned
    /\ Len(allTokens) = 3
    /\ allTokens[3].isComplete
    /\ Len(completedTokens) = 2

\* the step is a push that returned
PushStep == CallMade /\ PushReturned'

\* the committed tokens of the buffer after the step
NewCommitted == SubSeq(allTokens', 1, Len(allTokens') - 1)

\* C25. Cache reuse rule: a push leaves the cached committed tokens and HTML
\* as they are when the new committed sequence has the length of the cached
\* one and the same raw span at every index; otherwise it replaces both by
\* the new committed sequence and its freshly rendered HTML.
C25_CacheReuseRule ==
    [][PushStep
        => IF /\ Len(NewCommitted) = Len(completedTokens)
              /\ \A k \in 1..Len(NewCommitted) : NewCommitted[k].raw = completedTokens[k].raw
           THEN completedTokens' = completedTokens /\ completedHtml' = completedHtml
           ELSE /\ completedTokens' = NewCommitted
                /\ completedHtml' = renderTokens(NewCommitted, options)]_vars

\* a push returned that reused a cache holding a paragraph: the token
\* renderer was not invoked on a committed token
C25_Witness ==
    /\ PushReturned
    /\ Len(completedTokens) >= 1
    /\ completedTokens[1].type = "paragraph"
    /\ \A n \in 1..Len(renderLog) : renderLog[n].part /= "committed"

\* C26. Eager paragraph break: a paragraph token consumes, after its first
\* line, exactly the following lines that are not blank and at which none of
\* the rules 2 to 9 would match as a scan position: no line it holds after
\* the first starts another construct, and the line it stops at does.
C26_EagerParagraphBreak ==
    \A k \in 1..Len(tokens) :
        tokens[k].type = "paragraph"
        => /\ \A j \in (starts[k] + 1)..tokens[k].endOffset :
                  RuleAt(lines, j, options) = "paragraph"
           /\ tokens[k].endOffset + 1 < Len(lines)
                  => RuleAt(lines, tokens[k].endOffset + 1, options) /= "paragraph"

\* the rules in the order of the claim
Priority ==
    <<"newline", "math", "fence", "heading", "hr", "quote", "table", "ulist", "olist",
      "paragraph">>

\* the start condition of a rule holds at line k of the buffer
StartCondition(rule, k) ==
    CASE rule = "newline" -> IsBlank(TrimEnd(Line(lines, k)))
      [] rule = "math" -> IsMathStart(TrimEnd(Line(lines, k)), options)
      [] rule = "fence" -> IsFenceStart(TrimEnd(Line(lines, k)))
      [] rule = "heading" -> HeadingMatch(TrimEnd(Line(lines, k)))
      [] rule = "hr" -> IsHr(TrimEnd(Line(lines, k)))
      [] rule = "quote" -> IsQuoteLine(Line(lines, k))
      [] rule = "table" -> IsTableStart(lines, k, options)
      [] rule = "ulist" -> UListStart(Line(lines, k))
      [] rule = "olist" -> OListStart(Line(lines, k))
      [] OTHER -> TRUE

FirstRule(k) ==
    Priority[CHOOSE n \in 1..Len(Priority) :
                 /\ StartCondition(Priority[n], k)
                 /\ \A m \in 1..(n - 1) : ~StartCondition(Priority[m], k)]

\* the token is one that the rule emits
EmittedBy(rule, token) ==
    CASE rule = "newline" -> token.type = "newline"
      [] rule = "math" -> token.type = "math_block"
      [] rule = "fence" -> token.type = "code_block"
      [] rule = "heading" -> token.type = "heading"
      [] rule = "hr" -> token.type = "hr"
      [] rule = "quote" -> token.type \in {"blockquote", "callout"}
      [] rule = "table" -> token.type = "table"
      [] rule = "ulist" -> token.type = "list" /\ ~token.ordered
      [] rule = "olist" -> token.type = "list" /\ token.ordered
      [] OTHER -> token.type = "paragraph"

\* C27. Recognition priority: the token emitted at a scan position is of the
\* type of the first rule, in the order blank line, math block, fenced code,
\* heading, horizontal rule, quote/callout, table, unordered list, ordered
\* list, paragraph, whose start condition holds at that position.
C27_RecognitionPriority ==
    \A k \in 1..Len(tokens) : EmittedBy(FirstRule(starts[k]), tokens[k])

\* tokenize returned a quote token for a line that holds a pipe and is
\* followed by an alignment row: the start conditions of two rules hold
C27_Witness ==
    /\ pc = "returned"
    /\ \E k \in 1..Len(tokens) :
        /\ tokens[k].type = "blockquote"
        /\ StartCondition("quote", starts[k])
        /\ StartCondition("table", starts[k])

\* the cells of line k of the buffer
CellsOf(k) == ParseRow(TrimEnd(Line(lines, k)))

\* C28. Table structure: every table token consumes at least two lines; the
\* second is the alignment row whose match triggered recognition; the header
\* is the cells of the first line, the alignment comes from the cells of the
\* alignment row, and the body rows are the cells of the remaining lines.
C28_TableStructure ==
    \A k \in 1..Len(tokens) :
        tokens[k].type = "table"
        => /\ tokens[k].endOffset >= starts[k] + 1
           /\ AlignRowTest(TrimEnd(Line(lines, starts[k] + 1)))
           /\ tokens[k].header = CellsOf(starts[k])
           /\ tokens[k].align
                  = [n \in 1..Len(CellsOf(starts[k] + 1)) |-> AlignOf(CellsOf(starts[k] + 1)[n])]
           /\ tokens[k].rows
                  = [n \in 1..(tokens[k].endOffset - starts[k] - 1) |->
                         CellsOf(starts[k] + 1 + n)]

\* tokenize returned a table token with a body row
C28_Witness ==
    /\ pc = "returned"
    /\ \E k \in 1..Len(tokens) :
        /\ tokens[k].type = "table"
        /\ tokens[k].endOffset = starts[k] + 2
        /\ Len(tokens[k].rows) = 1

\* the fields of a token that rendering reads
Read(token) ==
    [type |-> token.type, text |-> token.text, lang |-> token.lang,
     items |-> token.items, ordered |-> token.ordered, rows |-> token.rows,
     header |-> token.header, align |-> token.align,
     calloutType |-> token.calloutType, calloutTitle |-> token.calloutTitle]

\* C29. Soundness of the raw-span comparison: in a session of pushes alone,
\* after every push the committed tokens held, reused or not, equal the
\* committed tokens of the buffer in every field that rendering reads, and
\* the committed HTML held is a fresh rendering of those tokens.
C29_RawComparisonSound ==
    PushReturned
    => /\ Len(completedTokens) = Len(allTokens) - 1
       /\ \A j \in 1..Len(completedTokens) : Read(completedTokens[j]) = Read(allTokens[j])
       /\ completedHtml = renderTokens(SubSeq(allTokens, 1, Len(allTokens) - 1), options)

\* a push returned that reused a cache holding a list token, whose raw span
\* has neither the markers nor the task boxes of its items
C29_Witness ==
    /\ PushReturned
    /\ Len(completedTokens) >= 1
    /\ completedTokens[1].type = "list"
    /\ \A n \in 1..Len(renderLog) : renderLog[n].part /= "committed"

\* C30. Unsubscribe is local to its registration: a call of an unsubscribe
\* function removes one registration only; every other registration, a
\* second one of the same listener function included, stays, in the same
\* order.
C30_UnsubscribeOneRegistration ==
    [][Len(listeners') < Len(listeners)
        => \E k \in 1..Len(listeners) :
               listeners' = SubSeq(listeners, 1, k - 1)
                                \o SubSeq(listeners, k + 1, Len(listeners))]_vars
====
